---- MODULE Spec2Model ----
(***************************************************************************)
(* Model of the variadic hash driver FunctionAnyHash<Impl, with_seed> of   *)
(* Functions/FunctionsHashing.h (src/unnamed/part_000).                    *)
(*                                                                         *)
(* Hash primitives (CityHash64, MurmurHash, intHash32/64, Hash128to64...)  *)
(* are external libraries; their results are modelled as uninterpreted     *)
(* terms, encoded as sequences of naturals:                                *)
(*   <<TagApply, seed, len>> \o bytes     Impl::apply(bytes, len[, seed])  *)
(*   <<TagInt64, x>>, <<TagInt32, x>>     IntHash64Impl / IntHash32Impl    *)
(*   <<TagComb>> \o h1 \o h2              Impl::combineHashes(h1, h2)      *)
(*   <<TagMagic>> \o 16-bit limbs         static_cast<ToType>(0xe28d...)   *)
(*   <<TagUninit, j, i>>                  contents of an unwritten slot    *)
(* Two terms are equal iff they were built by the same calls on the same   *)
(* operands in the same order.                                             *)
(***************************************************************************)
EXTENDS Integers, Sequences, FiniteSets, TLC

(* ------------------------------------------------------------------ *)
(* Bounds of the model                                                  *)
(* ------------------------------------------------------------------ *)
MaxRows == 2
\* longest generated tail (host and path) of a URL
MaxRest == 4
\* largest level passed to URLHash
MaxLevel == 3
\* longest generated string hashed by the Java-compatible functions
MaxBytes == 10
\* largest number of engines registered in the StorageFactory
MaxEngines == 3

(* ------------------------------------------------------------------ *)
(* Term tags                                                            *)
(* ------------------------------------------------------------------ *)
TagApply == 1
TagInt64 == 2
TagInt32 == 3
TagComb == 4
TagMagic == 5
TagUninit == 6
TagDigest == 7

(* ------------------------------------------------------------------ *)
(* Policies (struct ...Impl) and the instances built from them          *)
(* ------------------------------------------------------------------ *)
Impls == {"cityHash64", "murmurHash3_32WithSeed", "javaHash", "javaHashUTF16LE", "hiveHash"}

\* using ReturnType = UInt64 / UInt32 / Int32
ReturnBits(impl) ==
    IF impl = "cityHash64" THEN 64 ELSE 32

\* static constexpr bool use_int_hash_for_pods
use_int_hash_for_pods(impl) == impl = "cityHash64"

\* second template argument of the using-declarations FunctionXxx = FunctionAnyHash<Impl, with_seed>
with_seed(impl) == impl = "murmurHash3_32WithSeed"

NoErr == ""
Ok(h) == [err |-> NoErr, h |-> h]
Throw(code) == [err |-> code, h |-> <<>>]

\* little-endian 16-bit units of an even-length byte run
RECURSIVE Units16(_)
Units16(bytes) ==
    IF Len(bytes) < 2 THEN <<>>
    ELSE <<bytes[1] + 256 * bytes[2]>> \o Units16(SubSeq(bytes, 3, Len(bytes)))

JavaHashUTF16LEApply(bytes) ==
    LET bom == Len(bytes) >= 2 /\ bytes[1] = 255 /\ bytes[2] = 254
        data == IF bom THEN SubSeq(bytes, 3, Len(bytes)) ELSE bytes
    IN  IF Len(data) % 2 # 0 THEN Throw("BAD_ARGUMENTS")
        ELSE Ok(<<TagApply, 0, Len(data) \div 2>> \o Units16(data))

\* Impl::apply(data, size[, seed])
apply(impl, bytes, sd) ==
    IF impl = "javaHashUTF16LE" THEN JavaHashUTF16LEApply(bytes)
    ELSE Ok(<<TagApply, sd, Len(bytes)>> \o bytes)

\* combineHashes of the non-combinable policies returning a value instead of throwing
combineHashes_NeverThrows(impl, h1, h2) == Ok(<<TagComb>> \o h1 \o h2)

\* Impl::combineHashes(h1, h2)
combineHashes(impl, h1, h2) ==
    IF impl \in {"javaHash", "javaHashUTF16LE", "hiveHash"} THEN Throw("NOT_IMPLEMENTED")
    ELSE Ok(<<TagComb>> \o h1 \o h2)

IntHash64Impl(x) == <<TagInt64, x>>
IntHash32Impl(x) == <<TagInt32, x>>

\* the 16-bit limbs of 0xe28dbde7fe22e41c, most significant first
MagicLimbs == <<58013, 48615, 65058, 58396>>

\* static_cast<ToType>(0xe28dbde7fe22e41c): keeps the low ReturnBits bits
MagicDigest(impl) ==
    <<TagMagic>> \o SubSeq(MagicLimbs, 5 - ReturnBits(impl) \div 16, 4)

\* contents of slot i of a buffer that was created but not written
Uninit(j, i) == <<TagUninit, j, i>>

(* ------------------------------------------------------------------ *)
(* Columns and types                                                    *)
(*   kind    "Vector" | "String" | "FixedString" | "Array" | "Tuple" |  *)
(*           "Map" | "ByteMap" | "Const"                                *)
(*   elem    element type of a ColumnVector / ColumnDecimal             *)
(*   chars   flat byte buffer (values, or strings with their zero byte) *)
(*   offsets end offsets of the rows of a String or Array column        *)
(*   n       FixedString width, or row count of a Const / Tuple column *)
(*   cols    nested columns                                             *)
(* ------------------------------------------------------------------ *)
Col(kind, elem, chars, offsets, n, cols) ==
    [kind |-> kind, elem |-> elem, chars |-> chars, offsets |-> offsets, n |-> n, cols |-> cols]

Ty(tag, elems) == [tag |-> tag, elems |-> elems]

SizeOf(t) ==
    CASE t \in {"UInt8", "Int8"} -> 1
      [] t \in {"UInt16", "Int16"} -> 2
      [] t \in {"UInt32", "Int32", "Float32", "Decimal32"} -> 4
      [] t \in {"UInt64", "Int64", "Float64", "Decimal64", "DateTime64"} -> 8
      [] t \in {"UInt128", "Int128", "UUID", "Decimal128"} -> 16
      [] OTHER -> 32

\* IColumn::size()
ColSize(c) ==
    CASE c.kind = "Vector" -> Len(c.chars) \div SizeOf(c.elem)
      [] c.kind = "FixedString" -> Len(c.chars) \div c.n
      [] c.kind \in {"String", "Array"} -> Len(c.offsets)
      [] c.kind \in {"Map", "ByteMap"} -> Len(c.cols[1].offsets)
      [] OTHER -> c.n

\* value of a little-endian byte run
RECURSIVE LEValue(_)
LEValue(bytes) ==
    IF bytes = <<>> THEN 0 ELSE bytes[1] + 256 * LEValue(Tail(bytes))

\* bit_cast<UInt64>(v) / bit_cast<UInt32>(v): the low bytes of v, zero extended
bit_cast(bits, bytes) ==
    LEValue(SubSeq(bytes, 1, IF Len(bytes) < bits \div 8 THEN Len(bytes) ELSE bits \div 8))

\* &vec_from[i], sizeof(vec_from[i])
ValueBytes(c, i) == SubSeq(c.chars, (i - 1) * SizeOf(c.elem) + 1, i * SizeOf(c.elem))

StartOf(offsets, i) == IF i = 1 THEN 0 ELSE offsets[i - 1]


\* IColumn::getDataAt(i)
RECURSIVE getDataAt(_, _)
getDataAt(c, i) ==
    CASE c.kind = "Vector" -> ValueBytes(c, i)
      [] c.kind = "FixedString" -> SubSeq(c.chars, (i - 1) * c.n + 1, i * c.n)
      [] c.kind = "String" -> SubSeq(c.chars, StartOf(c.offsets, i) + 1, c.offsets[i] - 1)
      [] c.kind = "Const" -> getDataAt(c.cols[1], 1)
      [] OTHER -> <<>>

RECURSIVE RepeatSeq(_, _)
RepeatSeq(s, k) == IF k = 0 THEN <<>> ELSE s \o RepeatSeq(s, k - 1)

LastOr0(s) == IF s = <<>> THEN 0 ELSE s[Len(s)]

\* k copies of offsets, each shifted by the total length of the copies before it
RECURSIVE RepeatOffsets(_, _, _)
RepeatOffsets(offs, total, k) ==
    IF k = 0 THEN <<>>
    ELSE RepeatOffsets(offs, total, k - 1) \o [i \in 1..Len(offs) |-> offs[i] + (k - 1) * total]

\* IColumn::replicate: the rows of c, k times over
RECURSIVE RepeatCol(_, _)
RepeatCol(c, k) ==
    CASE c.kind \in {"Vector", "FixedString"} ->
            [c EXCEPT !.chars = RepeatSeq(c.chars, k)]
      [] c.kind = "String" ->
            [c EXCEPT !.chars = RepeatSeq(c.chars, k),
                      !.offsets = RepeatOffsets(c.offsets, Len(c.chars), k)]
      [] c.kind = "Array" ->
            [c EXCEPT !.offsets = RepeatOffsets(c.offsets, LastOr0(c.offsets), k),
                      !.cols = <<RepeatCol(c.cols[1], k)>>]
      [] c.kind = "Tuple" ->
            [c EXCEPT !.n = c.n * k,
                      !.cols = [f \in 1..Len(c.cols) |-> RepeatCol(c.cols[f], k)]]
      [] c.kind \in {"Map", "ByteMap"} ->
            [c EXCEPT !.cols = <<RepeatCol(c.cols[1], k)>>]
      [] OTHER -> c

\* ColumnConst::convertToFullColumn
convertToFullColumn(c) == RepeatCol(c.cols[1], c.n)

\* ColumnConst::create(data, size)
ColumnConst(data, size) == Col("Const", "", <<>>, <<>>, size, <<data>>)

\* checkAndGetColumnConst<ColumnX> / checkAndGetColumnConstData<ColumnX>
IsConstOf(c, kinds) == c.kind = "Const" /\ c.cols[1].kind \in kinds

(* ------------------------------------------------------------------ *)
(* Row loops: a buffer result is [err, vec]; the first row that throws  *)
(* decides the error                                                    *)
(* ------------------------------------------------------------------ *)
VecOk(vec) == [err |-> NoErr, vec |-> vec]
VecThrow(code) == [err |-> code, vec |-> <<>>]

Collect(rowres) ==
    LET bad == {i \in 1..Len(rowres) : rowres[i].err # NoErr}
    IN  IF bad = {} THEN VecOk([i \in 1..Len(rowres) |-> rowres[i].h])
        ELSE VecThrow(rowres[CHOOSE i \in bad : \A k \in bad : i <= k].err)

\* the store with the operands of combineHashes exchanged
Store_Swapped(impl, first, old, hres) ==
    IF hres.err # NoErr THEN hres
    ELSE IF first THEN hres
    ELSE combineHashes(impl, hres.h, old)

\* if constexpr (first) vec_to[i] = h; else vec_to[i] = Impl::combineHashes(vec_to[i], h);
Store(impl, first, old, hres) ==
    IF hres.err # NoErr THEN hres
    ELSE IF first THEN hres
    ELSE combineHashes(impl, old, hres.h)

\* for (size_t i = 0; i < size; ++i) { h = hs[i]; store }, hs the hashes of the size rows
PerRow(impl, first, vec_to, hs) ==
    Collect([i \in 1..Len(vec_to) |->
                IF i <= Len(hs) THEN Store(impl, first, vec_to[i], hs[i]) ELSE Ok(vec_to[i])])

\* constant branch: the value is hashed once, then assigned to or combined into every row
Broadcast(impl, first, vec_to, hres) ==
    IF hres.err # NoErr THEN VecThrow(hres.err)
    ELSE PerRow(impl, first, vec_to, [i \in 1..Len(vec_to) |-> hres])

\* applyWithSeed(data, size)
applyWithSeed(ctx, bytes) ==
    IF with_seed(ctx.impl) THEN apply(ctx.impl, bytes, ctx.seed)
    ELSE apply(ctx.impl, bytes, 0)

\* the hash of one value with the use_int_hash_for_pods branch left out
IntTypeHash_AlwaysApply(ctx, bytes) == applyWithSeed(ctx, bytes)

\* the hash of one value of a fixed-width scalar column
IntTypeHash(ctx, bytes) ==
    IF use_int_hash_for_pods(ctx.impl)
    THEN IF ReturnBits(ctx.impl) = 64 THEN Ok(IntHash64Impl(bit_cast(64, bytes)))
         ELSE Ok(IntHash32Impl(bit_cast(32, bytes)))
    ELSE applyWithSeed(ctx, bytes)

executeIntType(ctx, FromType, first, column, vec_to) ==
    IF column.kind = "Vector" /\ column.elem = FromType
    THEN PerRow(ctx.impl, first, vec_to,
                [i \in 1..ColSize(column) |-> IntTypeHash(ctx, ValueBytes(column, i))])
    ELSE IF IsConstOf(column, {"Vector"}) /\ column.cols[1].elem = FromType
    THEN Broadcast(ctx.impl, first, vec_to, IntTypeHash(ctx, ValueBytes(column.cols[1], 1)))
    ELSE VecThrow("ILLEGAL_COLUMN")

executeBigIntType(ctx, FromType, first, column, vec_to) ==
    IF column.kind = "Vector" /\ column.elem = FromType
    THEN PerRow(ctx.impl, first, vec_to,
                [i \in 1..ColSize(column) |-> applyWithSeed(ctx, ValueBytes(column, i))])
    ELSE IF IsConstOf(column, {"Vector"}) /\ column.cols[1].elem = FromType
    THEN Broadcast(ctx.impl, first, vec_to, applyWithSeed(ctx, ValueBytes(column.cols[1], 1)))
    ELSE VecThrow("ILLEGAL_COLUMN")

executeGeneric(ctx, first, column, vec_to) ==
    PerRow(ctx.impl, first, vec_to,
           [i \in 1..ColSize(column) |-> applyWithSeed(ctx, getDataAt(column, i))])

executeString(ctx, first, column, vec_to) ==
    IF column.kind = "String"
    THEN PerRow(ctx.impl, first, vec_to,
                [i \in 1..Len(column.offsets) |-> applyWithSeed(ctx,
                    SubSeq(column.chars, StartOf(column.offsets, i) + 1, column.offsets[i] - 1))])
    ELSE IF column.kind = "FixedString"
    THEN PerRow(ctx.impl, first, vec_to,
                [i \in 1..(Len(column.chars) \div column.n) |-> applyWithSeed(ctx,
                    SubSeq(column.chars, (i - 1) * column.n + 1, i * column.n))])
    ELSE IF IsConstOf(column, {"String", "FixedString"})
    THEN Broadcast(ctx.impl, first, vec_to, applyWithSeed(ctx, getDataAt(column, 1)))
    ELSE VecThrow("ILLEGAL_COLUMN")


\* DataTypeMap::getNestedType / DataTypeByteMap::getNestedType: Array(Tuple(K, V))
MapNestedType(type) == Ty("Array", <<Ty("Tuple", type.elems)>>)

\* the element loop stopping one element early
RECURSIVE FoldElements_DropLast(_, _, _, _, _)
FoldElements_DropLast(impl, accres, vec_temp, j, next_offset) ==
    IF accres.err # NoErr \/ j >= next_offset THEN accres
    ELSE FoldElements_DropLast(impl, combineHashes(impl, accres.h, vec_temp[j]), vec_temp, j + 1, next_offset)

\* for (size_t j = current_offset; j < next_offset; ++j)
\*     vec_to[i] = Impl::combineHashes(vec_to[i], vec_temp[j]);
RECURSIVE FoldElements(_, _, _, _, _)
FoldElements(impl, accres, vec_temp, j, next_offset) ==
    IF accres.err # NoErr \/ j > next_offset THEN accres
    ELSE FoldElements(impl, combineHashes(impl, accres.h, vec_temp[j]), vec_temp, j + 1, next_offset)

IntTypeTags == {"UInt8", "UInt16", "UInt32", "UInt64", "Int8", "Int16", "Int32", "Int64",
                "Enum8", "Enum16", "Date", "Date32", "DateTime", "Float32", "Float64"}

BigIntTypeTags == {"UInt128", "UInt256", "Int128", "Int256", "UUID",
                   "Decimal32", "Decimal64", "Decimal128", "Decimal256"}

\* the FromType template argument chosen by executeAny for a type tag
FromTypeOf(tag) ==
    CASE tag = "Enum8" -> "Int8"
      [] tag = "Enum16" -> "Int16"
      [] tag = "Date" -> "UInt16"
      [] tag = "Date32" -> "Int32"
      [] tag = "DateTime" -> "UInt32"
      [] OTHER -> tag

RECURSIVE executeAny(_, _, _, _, _)
RECURSIVE executeArray(_, _, _, _, _)
RECURSIVE executeTupleFields(_, _, _, _, _, _)
RECURSIVE executeTuple(_, _, _, _, _)
RECURSIVE executeMap(_, _, _, _, _)
RECURSIVE executeByteMap(_, _, _, _, _)

\* the element count left out of the digest: every array hashes the count 0
LengthHash_Ignored(impl, n) ==
    IF ReturnBits(impl) = 64 THEN IntHash64Impl(0) ELSE IntHash32Impl(0)

\* h = IntHash64Impl::apply(next_offset - current_offset), or IntHash32Impl by return width
LengthHash(impl, n) ==
    IF ReturnBits(impl) = 64 THEN IntHash64Impl(n) ELSE IntHash32Impl(n)

executeArray(ctx, first, type, column, vec_to) ==
    IF column.kind = "Array"
    THEN LET nested_column == column.cols[1]
             offsets == column.offsets
             nested_size == ColSize(nested_column)
             temp == executeAny(ctx, TRUE, type.elems[1], nested_column,
                                [j \in 1..nested_size |-> Uninit(ctx.junk, j)])
         IN  IF temp.err # NoErr THEN temp
             ELSE Collect([i \in 1..Len(vec_to) |->
                    IF i > Len(offsets) THEN Ok(vec_to[i])
                    ELSE LET current_offset == StartOf(offsets, i)
                             next_offset == offsets[i]
                             h == LengthHash(ctx.impl, next_offset - current_offset)
                         IN  FoldElements(ctx.impl, Store(ctx.impl, first, vec_to[i], Ok(h)),
                                          temp.vec, current_offset + 1, next_offset)])
    ELSE IF IsConstOf(column, {"Array"})
    THEN executeArray(ctx, first, type, convertToFullColumn(column), vec_to)
    ELSE VecThrow("ILLEGAL_COLUMN")

\* for (size_t i = 0; i < tuple_size; ++i) executeAny<first>(tuple_types[i], tuple_columns[i], vec_to);
executeTupleFields(ctx, first, tuple_types, tuple_columns, i, res) ==
    IF res.err # NoErr \/ i > Len(tuple_columns) THEN res
    ELSE executeTupleFields(ctx, first, tuple_types, tuple_columns, i + 1,
                            executeAny(ctx, first, tuple_types[i], tuple_columns[i], res.vec))

executeTuple(ctx, first, type, column, vec_to) ==
    IF column.kind = "Tuple"
    THEN executeTupleFields(ctx, first, type.elems, column.cols, 1, VecOk(vec_to))
    ELSE IF IsConstOf(column, {"Tuple"})
    THEN executeTupleFields(ctx, first, type.elems,
            [f \in 1..Len(column.cols[1].cols) |-> ColumnConst(column.cols[1].cols[f], ColSize(column))],
            1, VecOk(vec_to))
    ELSE VecThrow("ILLEGAL_COLUMN")

executeMap(ctx, first, type, column, vec_to) ==
    IF column.kind = "Map"
    THEN executeArray(ctx, first, MapNestedType(type), column.cols[1], vec_to)
    ELSE IF IsConstOf(column, {"Map"})
    THEN executeMap(ctx, first, type, convertToFullColumn(column), vec_to)
    ELSE VecThrow("ILLEGAL_COLUMN")

executeByteMap(ctx, first, type, column, vec_to) ==
    IF column.kind = "ByteMap"
    THEN executeArray(ctx, first, MapNestedType(type), column.cols[1], vec_to)
    ELSE IF IsConstOf(column, {"Map"})
    THEN executeByteMap(ctx, first, type, convertToFullColumn(column), vec_to)
    ELSE VecThrow("ILLEGAL_COLUMN")

executeAny(ctx, first, from_type, icolumn, vec_to) ==
    LET tag == from_type.tag
    IN  CASE tag \in IntTypeTags -> executeIntType(ctx, FromTypeOf(tag), first, icolumn, vec_to)
          [] tag \in BigIntTypeTags -> executeBigIntType(ctx, tag, first, icolumn, vec_to)
          [] tag \in {"String", "FixedString"} -> executeString(ctx, first, icolumn, vec_to)
          [] tag = "Array" -> executeArray(ctx, first, from_type, icolumn, vec_to)
          [] tag = "Tuple" -> executeTuple(ctx, first, from_type, icolumn, vec_to)
          [] tag = "Map" -> executeMap(ctx, first, from_type, icolumn, vec_to)
          [] tag = "ByteMap" -> executeByteMap(ctx, first, from_type, icolumn, vec_to)
          [] OTHER -> executeGeneric(ctx, first, icolumn, vec_to)

\* the state threaded through the argument loop: [err, vec, is_first]
ArgState(res, is_first) == [err |-> res.err, vec |-> res.vec, is_first |-> is_first]

RECURSIVE executeForArgument(_, _, _, _)
RECURSIVE executeForArgumentFields(_, _, _, _, _)

\* for (size_t i = 0; i < tuple_size; ++i) executeForArgument(tuple_types[i], tuple_columns[i], vec_to, is_first);
executeForArgumentFields(ctx, tuple_types, tuple_columns, i, st) ==
    IF st.err # NoErr \/ i > Len(tuple_columns) THEN st
    ELSE executeForArgumentFields(ctx, tuple_types, tuple_columns, i + 1,
                                  executeForArgument(ctx, tuple_types[i], tuple_columns[i], st))

\* the argument loop without the flattening of tuples
executeForArgument_NoFlatten(ctx, type, column, st) ==
    LET after == ArgState(executeAny(ctx, st.is_first, type, column, st.vec), st.is_first)
    IN  IF after.err # NoErr THEN after ELSE [after EXCEPT !.is_first = FALSE]

executeForArgument(ctx, type, column, st) ==
    LET after ==
          IF column.kind = "Tuple"
          THEN executeForArgumentFields(ctx, type.elems, column.cols, 1, st)
          ELSE IF IsConstOf(column, {"Tuple"})
          THEN executeForArgumentFields(ctx, type.elems,
                  [f \in 1..Len(column.cols[1].cols) |-> ColumnConst(column.cols[1].cols[f], ColSize(column))],
                  1, st)
          ELSE ArgState(executeAny(ctx, st.is_first, type, column, st.vec), st.is_first)
    IN  IF after.err # NoErr THEN after ELSE [after EXCEPT !.is_first = FALSE]


(* ------------------------------------------------------------------ *)
(* The whole call, run alone: getReturnTypeImpl, then executeImpl with  *)
(* the seed taken from the call's own last argument                     *)
(* ------------------------------------------------------------------ *)
isUnsignedInteger(type) == type.tag \in {"UInt8", "UInt16", "UInt32", "UInt64", "UInt128", "UInt256"}

\* getReturnTypeImpl without the check of the seed's type
getReturnTypeImpl_SeedTypeUnchecked(impl, arguments) ==
    IF with_seed(impl) /\ arguments = <<>> THEN "NUMBER_OF_ARGUMENTS_DOESNT_MATCH" ELSE NoErr

\* getReturnTypeImpl: the error it throws, or NoErr
getReturnTypeImpl(impl, arguments) ==
    IF with_seed(impl) /\ arguments = <<>> THEN "NUMBER_OF_ARGUMENTS_DOESNT_MATCH"
    ELSE IF with_seed(impl) /\ ~isUnsignedInteger(arguments[Len(arguments)].type)
    THEN "ILLEGAL_TYPE_OF_ARGUMENT"
    ELSE NoErr

\* size_t size = arguments.size(); if constexpr (with_seed) size -= 1;
NumHashed(impl, arguments) == IF with_seed(impl) THEN Len(arguments) - 1 ELSE Len(arguments)

\* the seed read as an unsigned 8-bit number
SeedValue_Low8(column) == bit_cast(8, getDataAt(column, 1))

\* seed_const_column->getValue<UInt32>()
SeedValue(column) == bit_cast(32, getDataAt(column, 1))

\* auto col_to = ColumnVector<ToType>::create(rows): the slots are not initialised
CreateColumn(rows, junk) == [i \in 1..rows |-> Uninit(junk, i)]

\* the empty-argument branch left out
AssignIfEmpty_Never(impl, size, vec) == vec

\* if (!size) vec_to.assign(rows, static_cast<ToType>(0xe28dbde7fe22e41c));
AssignIfEmpty(impl, size, vec) ==
    IF size = 0 THEN [i \in 1..Len(vec) |-> MagicDigest(impl)] ELSE vec

RECURSIVE ArgumentLoop(_, _, _, _, _)
ArgumentLoop(ctx, arguments, size, i, st) ==
    IF st.err # NoErr \/ i > size THEN st
    ELSE ArgumentLoop(ctx, arguments, size, i + 1,
                      executeForArgument(ctx, arguments[i].type, arguments[i].column, st))

Returned(st) == [err |-> st.err, col |-> st.vec]

executeImpl(impl, arguments, input_rows_count, junk) ==
    IF getReturnTypeImpl(impl, arguments) # NoErr
    THEN [err |-> getReturnTypeImpl(impl, arguments), col |-> <<>>]
    ELSE IF with_seed(impl) /\ arguments[Len(arguments)].column.kind # "Const"
    THEN [err |-> "LOGICAL_ERROR", col |-> <<>>]
    ELSE LET size == NumHashed(impl, arguments)
             ctx == [impl |-> impl, junk |-> junk,
                     seed |-> IF with_seed(impl) THEN SeedValue(arguments[Len(arguments)].column) ELSE 0]
             vec0 == AssignIfEmpty(impl, size, CreateColumn(input_rows_count, junk))
         IN  Returned(ArgumentLoop(ctx, arguments, size, 1,
                                   [err |-> NoErr, vec |-> vec0, is_first |-> TRUE]))

(* ------------------------------------------------------------------ *)
(* Argument columns the calls are drawn from, for r input rows          *)
(* ------------------------------------------------------------------ *)
VectorColumn(elem, bytesPerRow) == Col("Vector", elem, bytesPerRow, <<>>, 0, <<>>)

RECURSIVE Concat(_)
Concat(ss) == IF ss = <<>> THEN <<>> ELSE Head(ss) \o Concat(Tail(ss))

RECURSIVE EndOffsets(_, _)
EndOffsets(lens, base) ==
    IF lens = <<>> THEN <<>> ELSE <<base + Head(lens)>> \o EndOffsets(Tail(lens), base + Head(lens))

\* ColumnString: every row is stored with a terminating zero byte
StringColumn(strs) ==
    Col("String", "", Concat([i \in 1..Len(strs) |-> strs[i] \o <<0>>]),
        EndOffsets([i \in 1..Len(strs) |-> Len(strs[i]) + 1], 0), 0, <<>>)

FixedStringColumn(n, strs) == Col("FixedString", "", Concat(strs), <<>>, n, <<>>)

\* ColumnArray: lens are the row lengths, nested holds the elements of all rows
ArrayColumn(lens, nested) == Col("Array", "", <<>>, EndOffsets(lens, 0), 0, <<nested>>)

TupleColumn(fields, n) == Col("Tuple", "", <<>>, <<>>, n, fields)

\* ColumnMap / ColumnByteMap over the nested Array(Tuple(K, V)) column
MapColumn(kind, nested) == Col(kind, "", <<>>, <<>>, 0, <<nested>>)

Sum(f, n) == LET RECURSIVE S(_)
                 S(k) == IF k = 0 THEN 0 ELSE f[k] + S(k - 1)
             IN  S(n)

TUInt8 == Ty("UInt8", <<>>)
TString == Ty("String", <<>>)

\* r rows of UInt8: base + 1, base + 2, ...
U8(base, r) == VectorColumn("UInt8", [i \in 1..r |-> base + i])
\* r rows of String: row i holds i - 1 bytes (odd and even lengths, the empty string)
StrOdd(r) == StringColumn([i \in 1..r |-> [k \in 1..(i - 1) |-> 96 + k]])
\* r rows of String of two bytes each
StrEven(r) == StringColumn([i \in 1..r |-> <<96 + i, 0>>])
\* element counts of the rows of the array columns: shift, shift + 1, ...
Lens(shift, r) == [i \in 1..r |-> shift + i - 1]

Arg(type, column) == [type |-> type, column |-> column]

\* the dense argument columns of r rows
DenseArgs(r) ==
    { Arg(TUInt8, U8(0, r)),
      Arg(Ty("Decimal32", <<>>), VectorColumn("Decimal32", Concat([i \in 1..r |-> <<i, 0, 0, 0>>]))),
      Arg(Ty("DateTime64", <<>>), VectorColumn("DateTime64", Concat([i \in 1..r |-> <<i, 0, 0, 0, 0, 0, 0, 0>>]))),
      Arg(TString, StrOdd(r)),
      Arg(TString, StrEven(r)),
      Arg(Ty("FixedString", <<>>), FixedStringColumn(2, [i \in 1..r |-> <<i, i>>])),
      Arg(Ty("Array", <<TUInt8>>), ArrayColumn(Lens(0, r), U8(10, Sum(Lens(0, r), r)))),
      Arg(Ty("Array", <<TUInt8>>), ArrayColumn(Lens(1, r), U8(20, Sum(Lens(1, r), r)))),
      Arg(Ty("Array", <<Ty("Tuple", <<TUInt8, TString>>)>>),
          ArrayColumn(Lens(1, r), TupleColumn(<<U8(30, Sum(Lens(1, r), r)), StrEven(Sum(Lens(1, r), r))>>,
                                              Sum(Lens(1, r), r)))),
      Arg(Ty("Tuple", <<TUInt8, TString>>), TupleColumn(<<U8(40, r), StrEven(r)>>, r)),
      Arg(Ty("Tuple", <<Ty("Tuple", <<TUInt8, TString>>), TUInt8>>),
          TupleColumn(<<TupleColumn(<<U8(40, r), StrEven(r)>>, r), U8(50, r)>>, r)),
      Arg(Ty("Tuple", <<>>), TupleColumn(<<>>, r)),
      Arg(Ty("Tuple", <<Ty("Tuple", <<>>)>>), TupleColumn(<<TupleColumn(<<>>, r)>>, r)),
      Arg(Ty("Map", <<TUInt8, TUInt8>>),
          MapColumn("Map", ArrayColumn(Lens(1, r), TupleColumn(<<U8(60, Sum(Lens(1, r), r)), U8(70, Sum(Lens(1, r), r))>>,
                                                               Sum(Lens(1, r), r))))),
      Arg(Ty("ByteMap", <<TUInt8, TUInt8>>),
          MapColumn("ByteMap", ArrayColumn(Lens(1, r), TupleColumn(<<U8(60, Sum(Lens(1, r), r)), U8(70, Sum(Lens(1, r), r))>>,
                                                                   Sum(Lens(1, r), r))))) }

\* the constant argument columns of r rows: one value, held once
ConstArgs(r) == { Arg(a.type, ColumnConst(a.column, r)) : a \in DenseArgs(1) }

Args(r) == DenseArgs(r) \cup ConstArgs(r)


\* arguments paired with every other argument in the two-argument calls
BaseArgs(r) ==
    { Arg(TUInt8, U8(0, r)),
      Arg(TString, StrEven(r)),
      Arg(TString, ColumnConst(StrEven(1), r)),
      Arg(Ty("Array", <<TUInt8>>), ArrayColumn(Lens(1, r), U8(20, Sum(Lens(1, r), r)))),
      Arg(Ty("Tuple", <<TUInt8, TString>>), TupleColumn(<<U8(40, r), StrEven(r)>>, r)) }

\* arguments of the three-argument calls
TrioArgs(r) ==
    { Arg(TUInt8, U8(0, r)),
      Arg(TString, ColumnConst(StrEven(1), r)),
      Arg(Ty("FixedString", <<>>), FixedStringColumn(2, [i \in 1..r |-> <<i, i>>])) }

\* the bytes of row i of a fixed-width scalar column: i, then 1, then zeros
ScalarValue(t, i) == [k \in 1..SizeOf(t) |-> IF k = 1 THEN i ELSE IF k = 2 THEN 1 ELSE 0]

ScalarColumn(tag, r) ==
    VectorColumn(FromTypeOf(tag), Concat([i \in 1..r |-> ScalarValue(FromTypeOf(tag), i)]))

\* the fixed-width scalar types of at most 64 bits
PodTags == IntTypeTags \cup {"Decimal32", "Decimal64"}

\* one dense and one constant argument of every fixed-width scalar type of at most 64 bits
ScalarArgs(r) ==
    { Arg(Ty(tag, <<>>), ScalarColumn(tag, r)) : tag \in PodTags }
    \cup { Arg(Ty(tag, <<>>), ColumnConst(ScalarColumn(tag, 1), r)) : tag \in PodTags }

\* r rows of Array(UInt8), every row a strict prefix of the next: [1,2], [1,2,2], [1,2,2,2], ...
PrefixArrays(r) ==
    Arg(Ty("Array", <<TUInt8>>),
        ArrayColumn([i \in 1..r |-> i + 1],
                    VectorColumn("UInt8", Concat([i \in 1..r |-> <<1>> \o [k \in 1..i |-> 2]]))))

\* r rows of Array(UInt8), every row the empty array
EmptyArrays(r) == Arg(Ty("Array", <<TUInt8>>), ArrayColumn([i \in 1..r |-> 0], U8(0, 0)))

\* the lists of hashed arguments (the seed excluded) of calls with r rows
HashedLists(r) ==
    {<<>>}
    \cup { <<EmptyArrays(r)>>, <<EmptyArrays(r), EmptyArrays(r)>> }
    \cup { <<PrefixArrays(r)>>,
           <<PrefixArrays(r), Arg(TString, ColumnConst(StrEven(1), r))>>,
           <<Arg(TString, ColumnConst(StrEven(1), r)), PrefixArrays(r)>> }
    \cup { <<a>> : a \in Args(r) }
    \cup { <<a>> : a \in ScalarArgs(r) }
    \cup { <<Arg(TString, StrEven(r)), a>> : a \in ScalarArgs(r) }
    \cup { <<a, b>> : a \in Args(r), b \in BaseArgs(r) }
    \cup { <<b, a>> : a \in Args(r), b \in BaseArgs(r) }
    \cup { <<a, b, c>> : a \in TrioArgs(r), b \in TrioArgs(r), c \in TrioArgs(r) }

Seeds == {1, 2}
Junks == {0, 1}

\* a well-formed seed argument: a constant column of an unsigned integer type
SeedArg(sd, r) == Arg(Ty("UInt32", <<>>), ColumnConst(VectorColumn("UInt32", <<sd, 0, 0, 0>>), r))

\* a seed argument of a wider type: a constant UInt64 of value sd + 256 + 2^32
WideSeedArg(sd, r) ==
    Arg(Ty("UInt64", <<>>), ColumnConst(VectorColumn("UInt64", <<sd, 1, 0, 0, 1, 0, 0, 0>>), r))

\* a UInt32 seed argument holding the low 32 bits of WideSeedArg(sd, r)
LowSeedArg(sd, r) == Arg(Ty("UInt32", <<>>), ColumnConst(VectorColumn("UInt32", <<sd, 1, 0, 0>>), r))

\* the hashed arguments of the calls made with the wider seeds
SeededLists(r) ==
    { <<>>, <<EmptyArrays(r)>>, <<EmptyArrays(r), EmptyArrays(r)>>, <<Arg(TString, StrEven(r))>> }

\* malformed seed arguments: a full column, a signed type, both, and a string
BadSeedArgs(r) ==
    { Arg(Ty("UInt32", <<>>), VectorColumn("UInt32", Concat([i \in 1..r |-> <<1, 0, 0, 0>>]))),
      Arg(Ty("Int32", <<>>), ColumnConst(VectorColumn("Int32", <<1, 0, 0, 0>>), r)),
      Arg(Ty("Int32", <<>>), VectorColumn("Int32", Concat([i \in 1..r |-> <<1, 0, 0, 0>>]))),
      Arg(TString, ColumnConst(StrEven(1), r)) }

\* the argument lists a caller can pass to an instance of impl with r rows
ArgumentLists(impl, r) ==
    IF with_seed(impl)
    THEN {<<>>}
         \cup { h \o <<SeedArg(sd, r)>> : h \in HashedLists(r), sd \in Seeds }
         \cup { h \o <<s>> : h \in SeededLists(r), s \in {WideSeedArg(1, r), LowSeedArg(1, r)} }
         \cup { h \o <<b>> : h \in {<<>>} \cup { <<a>> : a \in BaseArgs(r) }, b \in BadSeedArgs(r) }
    ELSE HashedLists(r)

\* the argument lists of the concurrent calls: hashed data and a well-formed seed
ConcurrentLists(r) ==
    { h \o <<SeedArg(sd, r)>> :
        h \in { <<Arg(TString, StrEven(r))>>,
                <<Arg(TUInt8, U8(0, r)), Arg(TString, ColumnConst(StrEven(1), r))>> },
        sd \in Seeds }

(* ------------------------------------------------------------------ *)
(* State                                                                *)
(* ------------------------------------------------------------------ *)
Threads == {1, 2}

VARIABLES
    impl,       \* the Impl template argument of the function instance
    seed,       \* mutable uint32_t seed: field of the instance
    pc,         \* per thread: position of its call
    arguments,  \* per thread: the arguments of its call
    input_rows_count,
    junk,       \* per thread: what the memory handed to its call holds
    vec_to,     \* per thread: the row digest accumulator col_to->getData()
    is_first_argument,
    idx,        \* per thread: loop variable i of executeImpl
    ret,        \* per thread: what the call returned or threw
    storages,       \* StorageFactory::storages: engine name -> Creator{creator_fn, features}
    creator_calls,  \* the creator functions invoked by the StorageFactory::get in progress
    array_join,     \* the ArrayJoinAction: columns, is_left, is_unaligned
    block           \* the Block given to ArrayJoinAction::execute

\* the fields of the StorageFactory, and the ArrayJoinAction with its block
factory_vars == <<storages, creator_calls>>
join_vars == <<array_join, block>>

vars == <<impl, seed, pc, arguments, input_rows_count, junk, vec_to, is_first_argument, idx, ret,
          storages, creator_calls, array_join, block>>

\* no ArrayJoinAction has been constructed
NoAction == [columns |-> {}, is_left |-> FALSE, is_unaligned |-> FALSE]

NoRet == [err |-> NoErr, col |-> <<>>]

Init ==
    /\ impl \in Impls
    /\ seed = 0
    /\ pc = [t \in Threads |-> "idle"]
    /\ arguments = [t \in Threads |-> <<>>]
    /\ input_rows_count = [t \in Threads |-> 0]
    /\ junk = [t \in Threads |-> 0]
    /\ vec_to = [t \in Threads |-> <<>>]
    /\ is_first_argument = [t \in Threads |-> TRUE]
    /\ idx = [t \in Threads |-> 0]
    /\ ret = [t \in Threads |-> NoRet]
    /\ storages = <<>>
    /\ creator_calls = <<>>
    /\ array_join = NoAction
    /\ block = <<>>

\* a caller invokes the function: IFunction::getReturnTypeImpl runs first
Call(t, concurrent) ==
    /\ pc[t] = "idle"
    /\ \E r \in 0..MaxRows :
       \E args \in (IF concurrent THEN ConcurrentLists(r) ELSE ArgumentLists(impl, r)) :
       \E j \in Junks :
        /\ arguments' = [arguments EXCEPT ![t] = args]
        /\ input_rows_count' = [input_rows_count EXCEPT ![t] = r]
        /\ junk' = [junk EXCEPT ![t] = j]
        /\ IF getReturnTypeImpl(impl, args) # NoErr
           THEN /\ pc' = [pc EXCEPT ![t] = "done"]
                /\ ret' = [ret EXCEPT ![t] = [err |-> getReturnTypeImpl(impl, args), col |-> <<>>]]
           ELSE /\ pc' = [pc EXCEPT ![t] = "begin"]
                /\ ret' = [ret EXCEPT ![t] = NoRet]
    /\ vec_to' = [vec_to EXCEPT ![t] = <<>>]
    /\ is_first_argument' = [is_first_argument EXCEPT ![t] = TRUE]
    /\ idx' = [idx EXCEPT ![t] = 0]
    /\ UNCHANGED <<impl, seed>>
    /\ UNCHANGED <<factory_vars, join_vars>>

\* executeImpl up to the argument loop: the seed is stored in the instance,
\* the output column is created, and assigned the constant if nothing is hashed
executeImplBegin(t) ==
    /\ pc[t] = "begin"
    /\ LET args == arguments[t]
           last == args[Len(args)]
       IN  IF with_seed(impl) /\ last.column.kind # "Const"
           THEN /\ pc' = [pc EXCEPT ![t] = "done"]
                /\ ret' = [ret EXCEPT ![t] = [err |-> "LOGICAL_ERROR", col |-> <<>>]]
                /\ UNCHANGED <<seed, vec_to, is_first_argument, idx>>
           ELSE /\ seed' = IF with_seed(impl) THEN SeedValue(last.column) ELSE seed
                /\ vec_to' = [vec_to EXCEPT ![t] =
                       AssignIfEmpty(impl, NumHashed(impl, args), CreateColumn(input_rows_count[t], junk[t]))]
                /\ is_first_argument' = [is_first_argument EXCEPT ![t] = TRUE]
                /\ idx' = [idx EXCEPT ![t] = 1]
                /\ pc' = [pc EXCEPT ![t] = "loop"]
                /\ UNCHANGED ret
    /\ UNCHANGED <<impl, arguments, input_rows_count, junk>>
    /\ UNCHANGED <<factory_vars, join_vars>>

\* one iteration of the argument loop: executeForArgument(arguments[i], vec_to, is_first_argument)
executeImplArgument(t) ==
    /\ pc[t] = "loop"
    /\ idx[t] <= NumHashed(impl, arguments[t])
    /\ LET ctx == [impl |-> impl, seed |-> seed, junk |-> junk[t]]
           a == arguments[t][idx[t]]
           st == executeForArgument(ctx, a.type, a.column,
                    [err |-> NoErr, vec |-> vec_to[t], is_first |-> is_first_argument[t]])
       IN  IF st.err # NoErr
           THEN /\ pc' = [pc EXCEPT ![t] = "done"]
                /\ ret' = [ret EXCEPT ![t] = [err |-> st.err, col |-> <<>>]]
                /\ UNCHANGED <<vec_to, is_first_argument, idx>>
           ELSE /\ vec_to' = [vec_to EXCEPT ![t] = st.vec]
                /\ is_first_argument' = [is_first_argument EXCEPT ![t] = st.is_first]
                /\ idx' = [idx EXCEPT ![t] = idx[t] + 1]
                /\ UNCHANGED <<pc, ret>>
    /\ UNCHANGED <<impl, seed, arguments, input_rows_count, junk>>
    /\ UNCHANGED <<factory_vars, join_vars>>

\* return col_to;
executeImplReturn(t) ==
    /\ pc[t] = "loop"
    /\ idx[t] > NumHashed(impl, arguments[t])
    /\ pc' = [pc EXCEPT ![t] = "done"]
    /\ ret' = [ret EXCEPT ![t] = [err |-> NoErr, col |-> vec_to[t]]]
    /\ UNCHANGED <<impl, seed, arguments, input_rows_count, junk, vec_to, is_first_argument, idx>>
    /\ UNCHANGED <<factory_vars, join_vars>>

\* the caller consumes the result or the exception; the call's locals are gone
Finish(t) ==
    /\ pc[t] = "done"
    /\ pc' = [pc EXCEPT ![t] = "idle"]
    /\ arguments' = [arguments EXCEPT ![t] = <<>>]
    /\ input_rows_count' = [input_rows_count EXCEPT ![t] = 0]
    /\ junk' = [junk EXCEPT ![t] = 0]
    /\ vec_to' = [vec_to EXCEPT ![t] = <<>>]
    /\ is_first_argument' = [is_first_argument EXCEPT ![t] = TRUE]
    /\ idx' = [idx EXCEPT ![t] = 0]
    /\ ret' = [ret EXCEPT ![t] = NoRet]
    /\ UNCHANGED <<impl, seed>>
    /\ UNCHANGED <<factory_vars, join_vars>>

\* sequential use of the instance: one caller
CallSeq == Call(1, FALSE)
BeginSeq == executeImplBegin(1)
ArgumentSeq == executeImplArgument(1)
ReturnSeq == executeImplReturn(1)
FinishSeq == Finish(1)

Next == CallSeq \/ BeginSeq \/ ArgumentSeq \/ ReturnSeq \/ FinishSeq

Spec == Init /\ [][Next]_vars


(* ------------------------------------------------------------------ *)
(* Concurrent use of one seeded instance: two callers                   *)
(* ------------------------------------------------------------------ *)
InitConc == Init /\ with_seed(impl)

CallConc == \E t \in Threads : Call(t, TRUE)
BeginConc == \E t \in Threads : executeImplBegin(t)
ArgumentConc == \E t \in Threads : executeImplArgument(t)
ReturnConc == \E t \in Threads : executeImplReturn(t)
FinishConc == \E t \in Threads : Finish(t)

NextConc == CallConc \/ BeginConc \/ ArgumentConc \/ ReturnConc \/ FinishConc

SpecConc == InitConc /\ [][NextConc]_vars

(* ------------------------------------------------------------------ *)
(* URLHash: URLHashImpl, URLHierarchyHashImpl, FunctionURLHash          *)
(* Bytes are character codes: '#' 35, '/' 47, ':' 58, '?' 63,           *)
(* '0' 48, '9' 57, 'a' 97, 'z' 122                                      *)
(* ------------------------------------------------------------------ *)
\* CityHash_v1_0_2::CityHash64(data, size)
CityHash64(bytes) == <<TagApply, 0, Len(bytes)>> \o bytes

\* *pos == '/' || *pos == '?' || *pos == '#'
IsSeparator(c) == c = 47 \/ c = 63 \/ c = 35

\* URLHashImpl::apply with the test of the last byte left out
URLHashImpl_apply_KeepsLast(data) == CityHash64(data)

\* URLHashImpl::apply(data, size)
URLHashImpl_apply(data) ==
    IF Len(data) > 0 /\ IsSeparator(data[Len(data)])
    THEN CityHash64(SubSeq(data, 1, Len(data) - 1))
    ELSE CityHash64(data)

\* (*pos > 'a' && *pos < 'z') || (*pos > '0' && *pos < '9')
IsProtocolChar(c) == (c > 97 /\ c < 122) \/ (c > 48 /\ c < 57)

\* while (pos < end && <protocol character>) ++pos;   pos counts the bytes before the cursor
RECURSIVE SkipProtocol(_, _)
SkipProtocol(s, pos) ==
    IF pos < Len(s) /\ IsProtocolChar(s[pos + 1]) THEN SkipProtocol(s, pos + 1) ELSE pos

\* while (pos < end && (*pos == '/' || *pos == '?' || *pos == '#')) ++pos;
RECURSIVE SkipSeparators(_, _)
SkipSeparators(s, pos) ==
    IF pos < Len(s) /\ IsSeparator(s[pos + 1]) THEN SkipSeparators(s, pos + 1) ELSE pos

\* while (pos < end && !(*pos == '/' || *pos == '?' || *pos == '#')) ++pos;
RECURSIVE SkipToSeparator(_, _)
SkipToSeparator(s, pos) ==
    IF pos < Len(s) /\ ~IsSeparator(s[pos + 1]) THEN SkipToSeparator(s, pos + 1) ELSE pos

\* if (pos != end) ++pos;
StepOver(s, pos) == IF pos # Len(s) THEN pos + 1 ELSE pos

\* the condition of the early return negated: a protocol, "://", and something after it
HasProtocolAndSlashes(s, pos) ==
    /\ pos # 0
    /\ pos # Len(s)
    /\ s[pos + 1] = 58
    /\ pos + 1 < Len(s)
    /\ s[pos + 2] = 47
    /\ pos + 2 < Len(s)
    /\ s[pos + 3] = 47
    /\ pos + 3 < Len(s)

\* the early return giving the whole input at every level
WithoutProtocol_Whole(level, s) == Len(s)

\* pos = end; return 0 == level ? pos - begin : 0;
WithoutProtocol(level, s) == IF level = 0 THEN Len(s) ELSE 0

\* the level loop returning the position reached when the segments run out
RECURSIVE LevelLoop_KeepsPosition(_, _, _, _)
LevelLoop_KeepsPosition(s, pos, current_level, level) ==
    IF current_level # level /\ pos < Len(s)
    THEN LET p1 == SkipSeparators(s, pos)
         IN  IF p1 = Len(s) THEN p1
             ELSE LevelLoop_KeepsPosition(s, StepOver(s, SkipToSeparator(s, p1)), current_level + 1, level)
    ELSE pos

\* the level loop without the skip of the separators that precede a segment
RECURSIVE LevelLoop_NoSkip(_, _, _, _)
LevelLoop_NoSkip(s, pos, current_level, level) ==
    IF current_level # level /\ pos < Len(s)
    THEN LevelLoop_NoSkip(s, StepOver(s, SkipToSeparator(s, pos)), current_level + 1, level)
    ELSE IF current_level = level THEN pos ELSE 0

\* while (current_level != level && pos < end) { ... }  return current_level == level ? pos - begin : 0;
RECURSIVE LevelLoop(_, _, _, _)
LevelLoop(s, pos, current_level, level) ==
    IF current_level # level /\ pos < Len(s)
    THEN LET p1 == SkipSeparators(s, pos)
         IN  IF p1 = Len(s) THEN IF current_level = level THEN p1 ELSE 0
             ELSE LevelLoop(s, StepOver(s, SkipToSeparator(s, p1)), current_level + 1, level)
    ELSE IF current_level = level THEN pos ELSE 0

\* URLHierarchyHashImpl::findLevelLength(level, begin, end)
findLevelLength(level, s) ==
    LET pos == SkipProtocol(s, 0)
    IN  IF ~HasProtocolAndSlashes(s, pos) THEN WithoutProtocol(level, s)
        ELSE LET domain_end == StepOver(s, SkipToSeparator(s, pos + 3))
             IN  IF level = 0 THEN domain_end
                 ELSE LevelLoop(s, domain_end, 0, level)

\* URLHierarchyHashImpl::apply(level, data, size)
URLHierarchyHashImpl_apply(level, data) ==
    URLHashImpl_apply(SubSeq(data, 1, findLevelLength(level, data)))

\* isInteger(second_arg)
isInteger(type) ==
    type.tag \in {"UInt8", "UInt16", "UInt32", "UInt64", "UInt128", "UInt256",
                  "Int8", "Int16", "Int32", "Int64", "Int128", "Int256"}

\* FunctionURLHash::getReturnTypeImpl: the error it throws, or NoErr
URLHash_getReturnTypeImpl(args) ==
    IF Len(args) # 1 /\ Len(args) # 2 THEN "NUMBER_OF_ARGUMENTS_DOESNT_MATCH"
    ELSE IF args[1].type.tag # "String" THEN "ILLEGAL_TYPE_OF_ARGUMENT"
    ELSE IF Len(args) = 2 /\ ~isInteger(args[2].type) THEN "ILLEGAL_TYPE_OF_ARGUMENT"
    ELSE NoErr

\* row i of a ColumnString without its terminating zero byte: &chars[current_offset],
\* offsets[i] - current_offset - 1
StringRow(column, i) ==
    SubSeq(column.chars, StartOf(column.offsets, i) + 1, column.offsets[i] - 1)

\* FunctionURLHash::executeSingleArg
executeSingleArg(args) ==
    LET col_untyped == args[1].column
    IN  IF col_untyped.kind = "String"
        THEN [err |-> NoErr,
              col |-> [i \in 1..ColSize(col_untyped) |-> URLHashImpl_apply(StringRow(col_untyped, i))]]
        ELSE [err |-> "ILLEGAL_COLUMN", col |-> <<>>]

\* level_col->get64(0)
get64(column) == LEValue(getDataAt(column, 1))

\* FunctionURLHash::executeTwoArgs
executeTwoArgs(args) ==
    LET level_col == args[Len(args)].column
        col_untyped == args[1].column
    IN  IF level_col.kind # "Const" THEN [err |-> "ILLEGAL_COLUMN", col |-> <<>>]
        ELSE IF col_untyped.kind = "String"
        THEN [err |-> NoErr,
              col |-> [i \in 1..ColSize(col_untyped) |->
                          URLHierarchyHashImpl_apply(get64(level_col), StringRow(col_untyped, i))]]
        ELSE [err |-> "ILLEGAL_COLUMN", col |-> <<>>]

\* FunctionURLHash::executeImpl
URLHash_executeImpl(args) ==
    IF Len(args) = 1 THEN executeSingleArg(args)
    ELSE IF Len(args) = 2 THEN executeTwoArgs(args)
    ELSE [err |-> "LOGICAL_ERROR", col |-> <<>>]

(* ------------------------------------------------------------------ *)
(* Calls of FunctionURLHash: one caller of one instance                 *)
(* ------------------------------------------------------------------ *)
\* all byte strings over alphabet of length at most n
StringsOver(alphabet, n) == UNION { [1..k -> alphabet] : k \in 0..n }

\* what stands before the colon: nothing, "h", "http", "h5", "ha", "z", "h9", "0", "H"
Protocols ==
    { <<>>, <<104>>, <<104, 116, 116, 112>>, <<104, 53>>, <<104, 97>>, <<122>>, <<104, 57>>,
      <<48>>, <<72>> }

\* "://", ":/" and nothing
Middles == { <<58, 47, 47>>, <<58, 47>>, <<>> }

\* host and path: every string over 'x', '/', '?', and "x/a/b", "x/a/", "x/a", "#", "x#",
\* "#x", "x#x#", "/x#x", "x/#x"
Rests ==
    StringsOver({120, 47, 63}, MaxRest)
    \cup { <<120, 47, 97, 47, 98>>, <<120, 47, 97, 47>>, <<120, 47, 97>>,
           <<35>>, <<120, 35>>, <<35, 120>>, <<120, 35, 120, 35>>, <<47, 120, 35, 120>>,
           <<120, 47, 35, 120>> }

URLs == { p \o m \o r : p \in Protocols, m \in Middles, r \in Rests }

\* a few inputs for the calls with fewer rows and the failing calls
FewURLs == { <<>>, <<47>>, <<104, 116, 116, 112, 58, 47, 47, 120, 47, 97, 47, 98>> }

\* r rows: s, s + c, s + c + c, ...
URLColumn(s, c, r) == StringColumn([i \in 1..r |-> s \o [k \in 1..(i - 1) |-> c]])

LevelArg(level, r) == Arg(TUInt8, ColumnConst(VectorColumn("UInt8", <<level>>), r))

\* the argument lists a caller can pass to URLHash
URLArgumentLists ==
    LET Cols == { Arg(TString, URLColumn(s, c, MaxRows)) : s \in URLs, c \in {47, 63, 35} }
                \cup { Arg(TString, URLColumn(s, 47, r)) : s \in FewURLs, r \in 0..MaxRows }
        Few == { Arg(TString, URLColumn(s, 47, r)) : s \in FewURLs, r \in 0..MaxRows }
    IN  { <<a>> : a \in Cols }
        \cup { <<a, LevelArg(level, ColSize(a.column))>> : a \in Cols, level \in 0..MaxLevel }
        \cup { <<>> }
        \cup { <<a, LevelArg(0, ColSize(a.column)), LevelArg(0, ColSize(a.column))>> : a \in Few }
        \cup { <<Arg(Ty("FixedString", <<>>), FixedStringColumn(2, [i \in 1..r |-> <<104, 47>>]))>> :
                 r \in 0..MaxRows }
        \cup { <<a, Arg(TString, ColumnConst(StrEven(1), ColSize(a.column)))>> : a \in Few }
        \cup { <<a, Arg(TUInt8, U8(0, ColSize(a.column)))>> : a \in Few }
        \cup { <<Arg(TString, ColumnConst(a.column, 1))>> : a \in Few }
        \cup { <<Arg(TString, ColumnConst(a.column, 1)), LevelArg(1, 1)>> : a \in Few }

InitURL ==
    /\ impl = "URLHash"
    /\ seed = 0
    /\ pc = [t \in Threads |-> "idle"]
    /\ arguments = [t \in Threads |-> <<>>]
    /\ input_rows_count = [t \in Threads |-> 0]
    /\ junk = [t \in Threads |-> 0]
    /\ vec_to = [t \in Threads |-> <<>>]
    /\ is_first_argument = [t \in Threads |-> TRUE]
    /\ idx = [t \in Threads |-> 0]
    /\ ret = [t \in Threads |-> NoRet]
    /\ storages = <<>>
    /\ creator_calls = <<>>
    /\ array_join = NoAction
    /\ block = <<>>

\* a caller invokes URLHash: getReturnTypeImpl runs first
URLCall ==
    /\ pc[1] = "idle"
    /\ \E args \in URLArgumentLists :
        /\ arguments' = [arguments EXCEPT ![1] = args]
        /\ input_rows_count' = [input_rows_count EXCEPT ![1] = IF args = <<>> THEN 0 ELSE ColSize(args[1].column)]
        /\ IF URLHash_getReturnTypeImpl(args) # NoErr
           THEN /\ pc' = [pc EXCEPT ![1] = "done"]
                /\ ret' = [ret EXCEPT ![1] = [err |-> URLHash_getReturnTypeImpl(args), col |-> <<>>]]
           ELSE /\ pc' = [pc EXCEPT ![1] = "begin"]
                /\ ret' = [ret EXCEPT ![1] = NoRet]
    /\ UNCHANGED <<impl, seed, junk, vec_to, is_first_argument, idx>>
    /\ UNCHANGED <<factory_vars, join_vars>>

\* FunctionURLHash::executeImpl returns the output column or throws
URLExecute ==
    /\ pc[1] = "begin"
    /\ ret' = [ret EXCEPT ![1] = URLHash_executeImpl(arguments[1])]
    /\ pc' = [pc EXCEPT ![1] = "done"]
    /\ UNCHANGED <<impl, seed, arguments, input_rows_count, junk, vec_to, is_first_argument, idx>>
    /\ UNCHANGED <<factory_vars, join_vars>>

URLFinish == Finish(1)

NextURL == URLCall \/ URLExecute \/ URLFinish

SpecURL == InitURL /\ [][NextURL]_vars

(* ------------------------------------------------------------------ *)
(* Fixed-digest functions: FunctionStringHashFixedString<Impl, with_seed> *)
(* ------------------------------------------------------------------ *)
FixedImpls ==
    {"MD5", "SHA1", "SHA224", "SHA256", "sipHash128", "murmurHash3_128", "murmurHash3_128WithSeed"}

\* enum { length = ... }
length(Impl) ==
    CASE Impl = "SHA1" -> 20
      [] Impl = "SHA224" -> 28
      [] Impl = "SHA256" -> 32
      [] OTHER -> 16

\* second template argument of the using-declarations FunctionXxx = FunctionStringHashFixedString<Impl, with_seed>
fixed_with_seed(Impl) == Impl = "murmurHash3_128WithSeed"

\* Impl::apply(begin, size, out_char_data[, seed]): the length bytes it writes
fixed_apply(Impl, bytes, sd) ==
    [k \in 1..length(Impl) |-> <<TagDigest, k, sd, Len(bytes)>> \o bytes]

\* isStringOrFixedString(arguments[0])
isStringOrFixedString(type) == type.tag \in {"String", "FixedString"}

\* getReturnTypeImpl without the check of the first argument's type
Fixed_getReturnTypeImpl_FirstUnchecked(Impl, args) ==
    IF fixed_with_seed(Impl) /\ ~isUnsignedInteger(args[Len(args)].type) THEN "ILLEGAL_TYPE_OF_ARGUMENT"
    ELSE NoErr

\* FunctionStringHashFixedString::getReturnTypeImpl: the error it throws, or NoErr
Fixed_getReturnTypeImpl(Impl, args) ==
    IF ~isStringOrFixedString(args[1].type) THEN "ILLEGAL_TYPE_OF_ARGUMENT"
    ELSE IF fixed_with_seed(Impl) /\ ~isUnsignedInteger(args[Len(args)].type) THEN "ILLEGAL_TYPE_OF_ARGUMENT"
    ELSE NoErr

\* the input of a row taken with its terminating zero byte
RowOfString_WithZero(data, offsets, i) == SubSeq(data, StartOf(offsets, i) + 1, offsets[i])

\* &data[current_offset], offsets[i] - current_offset - 1
RowOfString(data, offsets, i) == SubSeq(data, StartOf(offsets, i) + 1, offsets[i] - 1)

\* &data[i * length], length
RowOfFixedString(data, n, i) == SubSeq(data, (i - 1) * n + 1, i * n)

\* FunctionStringHashFixedString::executeImpl
Fixed_executeImpl(Impl, args) ==
    LET column == args[Len(args)].column
        sd == IF fixed_with_seed(Impl) THEN SeedValue(column) ELSE 0
        col_from == args[1].column
    IN  IF fixed_with_seed(Impl) /\ column.kind # "Const"
        THEN [err |-> "LOGICAL_ERROR", col |-> <<>>]
        ELSE IF col_from.kind = "String"
        THEN [err |-> NoErr,
              col |-> Col("FixedString", "",
                          Concat([i \in 1..Len(col_from.offsets) |->
                                     fixed_apply(Impl, RowOfString(col_from.chars, col_from.offsets, i), sd)]),
                          <<>>, length(Impl), <<>>)]
        ELSE IF col_from.kind = "FixedString"
        THEN [err |-> NoErr,
              col |-> Col("FixedString", "",
                          Concat([i \in 1..ColSize(col_from) |->
                                     fixed_apply(Impl, RowOfFixedString(col_from.chars, col_from.n, i), sd)]),
                          <<>>, length(Impl), <<>>)]
        ELSE [err |-> "ILLEGAL_COLUMN", col |-> <<>>]

\* the first arguments a caller can pass: string and fixed-string columns, and others
FixedFirstArgs(r) ==
    { Arg(TString, StrOdd(r)), Arg(TString, StrEven(r)),
      Arg(TString, URLColumn(<<>>, 47, r)),
      Arg(TString, StringColumn([i \in 1..r |-> <<0>>])),
      Arg(Ty("FixedString", <<>>), FixedStringColumn(2, [i \in 1..r |-> <<i, i>>])),
      Arg(Ty("FixedString", <<>>), FixedStringColumn(1, [i \in 1..r |-> <<0>>])),
      Arg(TUInt8, U8(0, r)),
      Arg(Ty("Array", <<TString>>), ArrayColumn(Lens(0, r), StrEven(Sum(Lens(0, r), r)))),
      Arg(TString, ColumnConst(StrEven(1), r)),
      Arg(TString, U8(0, r)),
      Arg(Ty("FixedString", <<>>), ColumnConst(FixedStringColumn(2, <<<<1, 1>>>>), r)) }

\* the argument lists of the calls: IFunction passes 1 + with_seed arguments
FixedArgumentLists(Impl, r) ==
    IF fixed_with_seed(Impl)
    THEN { <<a, SeedArg(sd, r)>> : a \in FixedFirstArgs(r), sd \in Seeds }
         \cup { <<a, b>> : a \in FixedFirstArgs(r), b \in BadSeedArgs(r) }
    ELSE { <<a>> : a \in FixedFirstArgs(r) }

InitFixed ==
    /\ impl \in FixedImpls
    /\ seed = 0
    /\ pc = [t \in Threads |-> "idle"]
    /\ arguments = [t \in Threads |-> <<>>]
    /\ input_rows_count = [t \in Threads |-> 0]
    /\ junk = [t \in Threads |-> 0]
    /\ vec_to = [t \in Threads |-> <<>>]
    /\ is_first_argument = [t \in Threads |-> TRUE]
    /\ idx = [t \in Threads |-> 0]
    /\ ret = [t \in Threads |-> NoRet]
    /\ storages = <<>>
    /\ creator_calls = <<>>
    /\ array_join = NoAction
    /\ block = <<>>

\* a caller invokes the function: getReturnTypeImpl runs first
FixedCall ==
    /\ pc[1] = "idle"
    /\ \E r \in 0..MaxRows :
       \E args \in FixedArgumentLists(impl, r) :
        /\ arguments' = [arguments EXCEPT ![1] = args]
        /\ input_rows_count' = [input_rows_count EXCEPT ![1] = r]
        /\ IF Fixed_getReturnTypeImpl(impl, args) # NoErr
           THEN /\ pc' = [pc EXCEPT ![1] = "done"]
                /\ ret' = [ret EXCEPT ![1] = [err |-> Fixed_getReturnTypeImpl(impl, args), col |-> <<>>]]
           ELSE /\ pc' = [pc EXCEPT ![1] = "begin"]
                /\ ret' = [ret EXCEPT ![1] = NoRet]
    /\ UNCHANGED <<impl, seed, junk, vec_to, is_first_argument, idx>>
    /\ UNCHANGED <<factory_vars, join_vars>>

\* FunctionStringHashFixedString::executeImpl returns the output column or throws
FixedExecute ==
    /\ pc[1] = "begin"
    /\ ret' = [ret EXCEPT ![1] = Fixed_executeImpl(impl, arguments[1])]
    /\ pc' = [pc EXCEPT ![1] = "done"]
    /\ UNCHANGED <<impl, seed, arguments, input_rows_count, junk, vec_to, is_first_argument, idx>>
    /\ UNCHANGED <<factory_vars, join_vars>>

FixedFinish == Finish(1)

NextFixed == FixedCall \/ FixedExecute \/ FixedFinish

SpecFixed == InitFixed /\ [][NextFixed]_vars

(* ------------------------------------------------------------------ *)
(* Vocabulary of the properties                                         *)
(* ------------------------------------------------------------------ *)
\* the hashed arguments of the sequential caller's call (the seed excluded)
Hashed == SubSeq(arguments[1], 1, NumHashed(impl, arguments[1]))

Done == pc[1] = "done"
Succeeded == Done /\ ret[1].err = NoErr

\* the traversal context of the call run with its own seed
OwnCtx(t) ==
    [impl |-> impl, junk |-> junk[t],
     seed |-> IF with_seed(impl) /\ arguments[t] # <<>>
              THEN SeedValue(arguments[t][Len(arguments[t])].column) ELSE 0]

\* combine(a, b) of a combinable policy, written out
Comb(a, b) == <<TagComb>> \o a \o b

RECURSIVE LeftFold(_, _)
LeftFold(acc, ds) == IF ds = <<>> THEN acc ELSE LeftFold(Comb(acc, Head(ds)), Tail(ds))

\* the digests of one argument hashed on its own into a fresh buffer
Digests(t, a) ==
    executeAny(OwnCtx(t), TRUE, a.type, a.column, CreateColumn(input_rows_count[t], junk[t]))

IsTupleArg(a) == a.type.tag = "Tuple"
IsArrayLike(a) == a.type.tag \in {"Array", "Map", "ByteMap"}


(* ------------------------------------------------------------------ *)
(* C1                                                                   *)
(* ------------------------------------------------------------------ *)
\* row i of the left fold combine(...combine(d1, d2)..., dk) over the hashed arguments
FoldOfArguments(i) ==
    LeftFold(Digests(1, Hashed[1]).vec[i],
             [k \in 1..(Len(Hashed) - 1) |-> Digests(1, Hashed[k + 1]).vec[i]])

RowsAreFoldOfArguments ==
    /\ Len(ret[1].col) = input_rows_count[1]
    /\ \A i \in 1..input_rows_count[1] : ret[1].col[i] = FoldOfArguments(i)

\* C1 as stated: a successful call with k >= 1 non-tuple arguments returns, in every row,
\* the left fold of the arguments' digests, accumulator first, arguments left to right.
C1_LeftFoldOfAnyArguments ==
    (/\ Succeeded
     /\ Len(Hashed) >= 1
     /\ \A k \in 1..Len(Hashed) : ~IsTupleArg(Hashed[k]))
        => RowsAreFoldOfArguments

\* C1 amended: the same, when only the first argument may be an array or a map (an array or
\* map in a later position is folded length first, element by element, into the accumulator).
C1_LeftFoldOfArguments ==
    (/\ Succeeded
     /\ Len(Hashed) >= 1
     /\ \A k \in 1..Len(Hashed) : ~IsTupleArg(Hashed[k])
     /\ \A k \in 2..Len(Hashed) : ~IsArrayLike(Hashed[k]))
        => RowsAreFoldOfArguments

C1_Witness ==
    /\ Succeeded
    /\ Len(Hashed) = 3
    /\ input_rows_count[1] = 2
    /\ \A k \in 1..3 : (~IsTupleArg(Hashed[k]) /\ ~IsArrayLike(Hashed[k]))
    /\ Hashed[1] # Hashed[2]
    /\ Hashed[2] # Hashed[3]
    /\ ret[1].col[2] = Comb(Comb(Digests(1, Hashed[1]).vec[2], Digests(1, Hashed[2]).vec[2]),
                            Digests(1, Hashed[3]).vec[2])

(* ------------------------------------------------------------------ *)
(* C2                                                                   *)
(* ------------------------------------------------------------------ *)
\* the fields of a tuple argument as arguments of their own, recursively
RECURSIVE FlattenArg(_)
FlattenArg(a) ==
    IF a.column.kind = "Tuple"
    THEN Concat([f \in 1..Len(a.column.cols) |-> FlattenArg(Arg(a.type.elems[f], a.column.cols[f]))])
    ELSE IF IsConstOf(a.column, {"Tuple"})
    THEN Concat([f \in 1..Len(a.column.cols[1].cols) |->
                    FlattenArg(Arg(a.type.elems[f], ColumnConst(a.column.cols[1].cols[f], a.column.n)))])
    ELSE <<a>>

FlattenArgs(as) == Concat([k \in 1..Len(as) |-> FlattenArg(as[k])])

RECURSIVE HasEmptyTuple(_)
HasEmptyTuple(type) ==
    /\ type.tag = "Tuple"
    /\ (type.elems = <<>> \/ \E f \in 1..Len(type.elems) : HasEmptyTuple(type.elems[f]))

\* the seed argument of the call, if the instance takes one
SeedSuffix == SubSeq(arguments[1], Len(Hashed) + 1, Len(arguments[1]))

\* C2: a call whose arguments include tuples (with fields, nested or not, dense or constant)
\* returns what the call on the flattened argument list returns.
C2_TuplesAreFlattened ==
    (/\ Done
     /\ getReturnTypeImpl(impl, arguments[1]) = NoErr
     /\ \E k \in 1..Len(Hashed) : IsTupleArg(Hashed[k])
     /\ \A k \in 1..Len(Hashed) : ~HasEmptyTuple(Hashed[k].type))
        => ret[1] = executeImpl(impl, FlattenArgs(Hashed) \o SeedSuffix, input_rows_count[1], junk[1])

C2_Witness ==
    /\ Succeeded /\ Len(Hashed) = 2 /\ input_rows_count[1] = 2
    /\ Hashed[1].type.tag = "Tuple" /\ Len(Hashed[1].type.elems) = 2
    /\ Hashed[1].type.elems[1].tag = "Tuple"
    /\ Len(FlattenArgs(Hashed)) = 4
    /\ ret[1] = executeImpl(impl, FlattenArgs(Hashed) \o SeedSuffix, 2, junk[1])

(* ------------------------------------------------------------------ *)
(* C3                                                                   *)
(* ------------------------------------------------------------------ *)
\* the sequential caller hashes one dense Array(Tuple(UInt8, String)) column
IsArrayOfPairsCall ==
    /\ Len(Hashed) = 1
    /\ Hashed[1].type = Ty("Array", <<Ty("Tuple", <<TUInt8, TString>>)>>)
    /\ Hashed[1].column.kind = "Array"

\* digest of element j of the nested tuple column as the fold of its fields' digests
PairDigest(j) ==
    LET tuple == Hashed[1].column.cols[1]
        size == ColSize(tuple.cols[1])
        d1 == executeAny(OwnCtx(1), TRUE, TUInt8, tuple.cols[1], CreateColumn(size, junk[1])).vec
        d2 == executeAny(OwnCtx(1), TRUE, TString, tuple.cols[2], CreateColumn(size, junk[1])).vec
    IN  Comb(d1[j], d2[j])

LengthDigest(n) == IF ReturnBits(impl) = 64 THEN <<TagInt64, n>> ELSE <<TagInt32, n>>

\* C3 as stated: inside an array, the digest of a tuple element (f1, f2) is
\* combine(d(f1), d(f2)); it depends on every field, not only on the last.
C3_NestedTupleFoldsEveryField ==
    (Succeeded /\ IsArrayOfPairsCall)
        => \A i \in 1..input_rows_count[1] :
             LET offsets == Hashed[1].column.offsets
                 lo == StartOf(offsets, i)
             IN  ret[1].col[i] =
                    LeftFold(LengthDigest(offsets[i] - lo),
                             [e \in 1..(offsets[i] - lo) |-> PairDigest(lo + e)])

(* ------------------------------------------------------------------ *)
(* C4                                                                   *)
(* ------------------------------------------------------------------ *)
\* the full array column of an array argument
FullArray(a) == IF a.column.kind = "Const" THEN convertToFullColumn(a.column) ELSE a.column

\* digests e0, e1, ... of all elements of the array argument, by the nested traversal
ElementDigests(a) ==
    LET nested == FullArray(a).cols[1]
    IN  executeAny(OwnCtx(1), TRUE, a.type.elems[1], nested, CreateColumn(ColSize(nested), junk[1])).vec

\* what row i of the accumulator becomes when array argument a is folded into acc
ArrayContribution(a, first, acc, i) ==
    LET offsets == FullArray(a).offsets
        lo == StartOf(offsets, i)
        n == offsets[i] - lo
        L == IF ReturnBits(impl) = 64 THEN <<TagInt64, n>> ELSE <<TagInt32, n>>
    IN  LeftFold(IF first THEN L ELSE Comb(acc, L), [e \in 1..n |-> ElementDigests(a)[lo + e]])

\* C4: every completed loop iteration over an array argument turns each row of the
\* accumulator into the fold of the length digest and that row's own element digests,
\* in ascending index order, started by assignment (first unit) or from the accumulator.
C4_ArrayContribution ==
    [][(/\ pc[1] = "loop"
        /\ pc'[1] = "loop"
        /\ idx'[1] = idx[1] + 1
        /\ arguments[1][idx[1]].type.tag = "Array")
        => \A i \in 1..input_rows_count[1] :
             vec_to'[1][i] = ArrayContribution(arguments[1][idx[1]], is_first_argument[1], vec_to[1][i], i)]_vars

C4_Witness ==
    /\ pc[1] = "loop" /\ idx[1] = 3 /\ input_rows_count[1] = 2
    /\ arguments[1][2].type = Ty("Array", <<TUInt8>>)
    /\ arguments[1][2].column.offsets = <<1, 3>>
    /\ arguments[1][1].type # arguments[1][2].type
    /\ \E acc \in {Digests(1, arguments[1][1]).vec[2]} :
         vec_to[1][2] = Comb(Comb(Comb(acc, LengthDigest(2)), ElementDigests(arguments[1][2])[2]),
                             ElementDigests(arguments[1][2])[3])


(* ------------------------------------------------------------------ *)
(* C5                                                                   *)
(* ------------------------------------------------------------------ *)
\* a Map or ByteMap argument replaced by its nested Array(Tuple(K, V)) column
MapAsArray(a) ==
    IF ~(a.type.tag \in {"Map", "ByteMap"}) THEN a
    ELSE Arg(MapNestedType(a.type),
             IF a.column.kind = "Const"
             THEN ColumnConst(a.column.cols[1].cols[1], a.column.n)
             ELSE a.column.cols[1])

\* C5 as stated: a call with a Map or ByteMap argument returns what the same call returns
\* with that argument replaced by its nested array of (key, value) tuples.
C5_MapHashedAsArray ==
    (/\ Done
     /\ getReturnTypeImpl(impl, arguments[1]) = NoErr
     /\ \E k \in 1..Len(Hashed) : Hashed[k].type.tag \in {"Map", "ByteMap"})
        => ret[1] = executeImpl(impl, [k \in 1..Len(Hashed) |-> MapAsArray(Hashed[k])] \o SeedSuffix,
                                input_rows_count[1], junk[1])

(* ------------------------------------------------------------------ *)
(* C6                                                                   *)
(* ------------------------------------------------------------------ *)
\* a constant argument replaced by the dense column of n copies of its value
ConstAsDense(a) ==
    IF a.column.kind = "Const" THEN Arg(a.type, convertToFullColumn(a.column)) ELSE a

\* C6 as stated: a call with a constant argument over n >= 1 rows, in the first or a later
\* position, returns what the call returns with the dense column of n copies of the value.
C6_ConstantHashedAsDense ==
    (/\ Done
     /\ getReturnTypeImpl(impl, arguments[1]) = NoErr
     /\ input_rows_count[1] >= 1
     /\ \E k \in 1..Len(Hashed) : Hashed[k].column.kind = "Const")
        => ret[1] = executeImpl(impl, [k \in 1..Len(Hashed) |-> ConstAsDense(Hashed[k])] \o SeedSuffix,
                                input_rows_count[1], junk[1])

(* ------------------------------------------------------------------ *)
(* C7                                                                   *)
(* ------------------------------------------------------------------ *)
NonCombinable == impl \in {"javaHash", "javaHashUTF16LE", "hiveHash"}

\* the number of arguments after tuple flattening
EffectiveArguments == Len(FlattenArgs(Hashed))

\* C7 as stated: a non-combinable policy called with more than one effective argument
\* fails with NOT_IMPLEMENTED, for every number of rows including zero.
C7_AlwaysNotImplemented ==
    (Done /\ NonCombinable /\ EffectiveArguments > 1)
        => (ret[1].err = "NOT_IMPLEMENTED" /\ ret[1].col = <<>>)

\* C7 amended: with at least one input row the call fails and returns no column; the error
\* is NOT_IMPLEMENTED unless the traversal throws earlier: BAD_ARGUMENTS from javaHashUTF16LE
\* on an odd-length value, or ILLEGAL_COLUMN for a column the traversal rejects.
C7_FailsWhenRowsExist ==
    (Done /\ NonCombinable /\ EffectiveArguments > 1 /\ input_rows_count[1] >= 1)
        => /\ ret[1].err # NoErr
           /\ ret[1].col = <<>>
           /\ \/ ret[1].err = "NOT_IMPLEMENTED"
              \/ (ret[1].err = "BAD_ARGUMENTS" /\ impl = "javaHashUTF16LE")
              \/ (ret[1].err = "ILLEGAL_COLUMN"
                    /\ \E k \in 1..Len(Hashed) : IsConstOf(Hashed[k].column, {"ByteMap"}))

C7_Witness ==
    /\ Done
    /\ impl = "javaHash"
    /\ Len(Hashed) = 2
    /\ EffectiveArguments = 3
    /\ input_rows_count[1] = 2
    /\ Hashed[2].column.kind = "Const"
    /\ ret[1].err = "NOT_IMPLEMENTED"

(* ------------------------------------------------------------------ *)
(* C8                                                                   *)
(* ------------------------------------------------------------------ *)
\* the call passed the checks of its seed argument, if the instance takes one
SeedWellFormed ==
    /\ getReturnTypeImpl(impl, arguments[1]) = NoErr
    /\ with_seed(impl) => arguments[1][Len(arguments[1])].column.kind = "Const"

C9_ConcurrentCallsUseOwnSeed ==
    \A t \in Threads :
        pc[t] = "done" => ret[t] = executeImpl(impl, arguments[t], input_rows_count[t], junk[t])

(* ------------------------------------------------------------------ *)
(* C10                                                                  *)
(* ------------------------------------------------------------------ *)
\* C10 as stated: in any sequence of calls on one instance, what a call returns is a function
\* of its own arguments only, whatever ran before and whatever the memory handed to it held.
C10_OutputDependsOnArgumentsOnly ==
    Done => ret[1] = executeImpl(impl, arguments[1], input_rows_count[1], 0)


(* ------------------------------------------------------------------ *)
(* C11                                                                  *)
(* ------------------------------------------------------------------ *)
\* the bytes of the value an argument of a fixed-width scalar type holds in row i
PodBytes(a, i) ==
    IF a.column.kind = "Const" THEN ValueBytes(a.column.cols[1], 1) ELSE ValueBytes(a.column, i)

\* the values the call hashes: one per row, and the value of a constant column once in any case
PodValues(a) ==
    IF a.column.kind = "Const" /\ input_rows_count[1] = 0 THEN {1} ELSE 1..input_rows_count[1]

\* the fast-path integer hash of the bit pattern under the flag, else apply over the raw bytes
PodDigest(a, i) ==
    IF use_int_hash_for_pods(impl)
    THEN Ok(<<TagInt64, LEValue(PodBytes(a, i))>>)
    ELSE apply(impl, PodBytes(a, i), OwnCtx(1).seed)

\* apply over the sizeof(value) raw bytes, whatever the flag
BytesDigest(a, i) == apply(impl, PodBytes(a, i), OwnCtx(1).seed)

IsPodCall(tags) ==
    /\ Done
    /\ SeedWellFormed
    /\ Len(Hashed) = 1
    /\ Hashed[1].type.tag \in tags

\* the call returned what hashing its values to ds gives: their digests row by row, or the
\* error of a value whose hash fails
ReturnsRowsOf(ds) ==
    LET bad == {i \in DOMAIN ds : ds[i].err # NoErr}
    IN  IF bad = {}
        THEN /\ ret[1].err = NoErr
             /\ ret[1].col = [i \in 1..input_rows_count[1] |-> ds[i].h]
        ELSE ret[1].err \in {ds[i].err : i \in bad}

PodDigests == [i \in PodValues(Hashed[1]) |-> PodDigest(Hashed[1], i)]
BytesDigests == [i \in PodValues(Hashed[1]) |-> BytesDigest(Hashed[1], i)]

\* C11 as stated: every fixed-width scalar type of at most 64 bits, Decimal32 and Decimal64
\* included, is hashed by the integer hash of its bit pattern when the policy sets
\* use_int_hash_for_pods, and by apply over its sizeof(value) raw bytes otherwise.
C11_AllPodsUseIntHash == IsPodCall(PodTags) => ReturnsRowsOf(PodDigests)

\* C11 amended: the integers, floats, dates and enums are hashed by the integer hash of the bit
\* pattern under the flag and by apply over sizeof(value) raw bytes otherwise; Decimal32 and
\* Decimal64 are hashed by apply over their raw bytes under either flag.
C11_PodsUseIntHashExceptDecimals ==
    /\ IsPodCall(IntTypeTags) => ReturnsRowsOf(PodDigests)
    /\ IsPodCall({"Decimal32", "Decimal64"}) => ReturnsRowsOf(BytesDigests)

C11_Witness ==
    /\ IsPodCall({"Float64"})
    /\ use_int_hash_for_pods(impl)
    /\ input_rows_count[1] = MaxRows
    /\ ret[1].err = NoErr
    /\ ret[1].col[MaxRows] = <<TagInt64, MaxRows + 256>>


(* ------------------------------------------------------------------ *)
(* C12                                                                  *)
(* ------------------------------------------------------------------ *)
\* the call failed with code before anything was hashed: no output column exists, the
\* argument loop was never entered
FailedBeforeHashing(code) ==
    /\ ret[1].err = code
    /\ ret[1].col = <<>>
    /\ vec_to[1] = <<>>
    /\ idx[1] = 0

SeedArgument == arguments[1][Len(arguments[1])]

\* C12: a with-seed function validates its last argument, the seed, before any hashing: no
\* arguments at all is NUMBER_OF_ARGUMENTS_DOESNT_MATCH, a last argument that is not of an
\* unsigned integer type is ILLEGAL_TYPE_OF_ARGUMENT, a last argument that is not a constant
\* column is LOGICAL_ERROR; no output column is produced, and the argument loop never
\* reaches the seed argument.
C12_SeedValidatedBeforeHashing ==
    /\ [](with_seed(impl) =>
            /\ (Done /\ arguments[1] = <<>>) => FailedBeforeHashing("NUMBER_OF_ARGUMENTS_DOESNT_MATCH")
            /\ (Done /\ arguments[1] # <<>> /\ ~isUnsignedInteger(SeedArgument.type))
                   => FailedBeforeHashing("ILLEGAL_TYPE_OF_ARGUMENT")
            /\ (Done /\ arguments[1] # <<>> /\ isUnsignedInteger(SeedArgument.type)
                      /\ SeedArgument.column.kind # "Const")
                   => FailedBeforeHashing("LOGICAL_ERROR"))
    /\ [][(with_seed(impl) /\ ArgumentSeq) => idx[1] < Len(arguments[1])]_vars

C12_Witness ==
    /\ with_seed(impl)
    /\ Done
    /\ Len(arguments[1]) = 2
    /\ input_rows_count[1] = MaxRows
    /\ isUnsignedInteger(SeedArgument.type)
    /\ SeedArgument.column.kind = "Vector"
    /\ FailedBeforeHashing("LOGICAL_ERROR")


(* ------------------------------------------------------------------ *)
(* C13                                                                  *)
(* ------------------------------------------------------------------ *)
\* the elements of row i of a dense Array(UInt8) column
RowElements(c, i) ==
    SubSeq(c.cols[1].chars, StartOf(c.offsets, i) + 1, c.offsets[i])

IsStrictPrefix(s, t) == Len(s) < Len(t) /\ SubSeq(t, 1, Len(s)) = s

\* the other arguments of the call are strings that hold the same value in every row
OthersConstant(k) ==
    \A m \in 1..Len(Hashed) :
        m # k => (Hashed[m].type = TString /\ Hashed[m].column.kind = "Const")

\* the digest of the array's element count is folded in before any element digest: row i is
\* the digest of the arguments before the array, then the count, then the elements in order,
\* then the arguments after the array
LengthFoldedFirst(k, i) ==
    LET acc == IF k = 1 THEN <<>> ELSE Digests(1, Hashed[1]).vec[i]
    IN  ret[1].col[i] =
            LeftFold(ArrayContribution(Hashed[k], k = 1, acc, i),
                     [m \in 1..(Len(Hashed) - k) |-> Digests(1, Hashed[k + m]).vec[i]])

\* C13: in a successful call, two rows whose array values have different lengths, one a strict
\* prefix of the other, and whose other arguments are equal, get different digests, and each
\* digest folds in the digest of its own element count before any element digest.
C13_ArrayLengthSensitivity ==
    Succeeded =>
        \A k \in 1..Len(Hashed) :
            (/\ Hashed[k].type = Ty("Array", <<TUInt8>>)
             /\ Hashed[k].column.kind = "Array"
             /\ OthersConstant(k)
             /\ k <= 2)
            => \A i, j \in 1..input_rows_count[1] :
                   IsStrictPrefix(RowElements(Hashed[k].column, i), RowElements(Hashed[k].column, j))
                   => /\ ret[1].col[i] # ret[1].col[j]
                      /\ LengthFoldedFirst(k, i)
                      /\ LengthFoldedFirst(k, j)

C13_Witness ==
    /\ Succeeded
    /\ Hashed = <<PrefixArrays(2)>>
    /\ IsStrictPrefix(RowElements(Hashed[1].column, 1), RowElements(Hashed[1].column, 2))
    /\ ret[1].col[1] # ret[1].col[2]


(* ------------------------------------------------------------------ *)
(* Vocabulary of the URLHash properties                                 *)
(* ------------------------------------------------------------------ *)
URLDone == impl = "URLHash" /\ pc[1] = "done" /\ ret[1].err = NoErr

\* the URL in row i of the first argument
URLRow(i) == StringRow(arguments[1][1].column, i)

\* the level of a two-argument call
URLLevel == get64(arguments[1][2].column)

EndsInSeparator(s) == s # <<>> /\ s[Len(s)] \in {47, 63, 35}

\* s without one trailing '/', '?' or '#'
StripOne(s) == IF EndsInSeparator(s) THEN SubSeq(s, 1, Len(s) - 1) ELSE s

\* the lengths k of a protocol of s: k >= 1 characters of chars, then "://", then something
ProtocolLengths(s, chars) ==
    { k \in 1..(Len(s) - 4) :
        /\ \A m \in 1..k : s[m] \in chars
        /\ s[k + 1] = 58 /\ s[k + 2] = 47 /\ s[k + 3] = 47 }

\* the characters strictly between 'a' and 'z' and strictly between '0' and '9'
InnerProtocolChars == 98..121 \cup 49..56
\* the lowercase letters and the digits
LowercaseAndDigits == 97..122 \cup 48..57

ProtocolLength(s, chars) == CHOOSE k \in ProtocolLengths(s, chars) : TRUE

\* the level-0 prefix: through the first separator after the host, or the whole URL
HostPrefix(s, chars) ==
    LET seps == { e \in (ProtocolLength(s, chars) + 4)..Len(s) : s[e] \in {47, 63, 35} }
    IN  IF seps = {} THEN Len(s) ELSE CHOOSE e \in seps : \A x \in seps : e <= x

\* the last positions of the path segments: the maximal runs without separators after the host
SegmentEnds(s, chars) ==
    { e \in (HostPrefix(s, chars) + 1)..Len(s) :
        /\ ~(s[e] \in {47, 63, 35})
        /\ (e = Len(s) \/ s[e + 1] \in {47, 63, 35}) }

\* the prefix of level N: through the separator that ends the N-th segment, or to the end
LevelPrefix(s, chars, N) ==
    IF N = 0 THEN HostPrefix(s, chars)
    ELSE LET ends == SegmentEnds(s, chars)
             e == CHOOSE x \in ends : Cardinality({y \in ends : y <= x}) = N
         IN  IF e < Len(s) THEN e + 1 ELSE Len(s)

(* ------------------------------------------------------------------ *)
(* C15                                                                  *)
(* ------------------------------------------------------------------ *)
\* C15: URLHash of one argument is CityHash64 of the row without one trailing '/', '?' or
\* '#'; so a row s + c, c a separator and s not ending in one, hashes as s, and the empty
\* string hashes as the empty byte run.
C15_StripsOneTrailingSeparator ==
    (URLDone /\ Len(arguments[1]) = 1) =>
        /\ Len(ret[1].col) = input_rows_count[1]
        /\ \A i \in 1..input_rows_count[1] :
              /\ ret[1].col[i] = CityHash64(StripOne(URLRow(i)))
              /\ URLRow(i) = <<>> => ret[1].col[i] = CityHash64(<<>>)
              /\ \A j \in 1..input_rows_count[1] :
                    (/\ ~EndsInSeparator(URLRow(i))
                     /\ \E c \in {47, 63, 35} : URLRow(j) = URLRow(i) \o <<c>>)
                    => ret[1].col[j] = ret[1].col[i]

C15_Witness ==
    /\ URLDone
    /\ Len(arguments[1]) = 1
    /\ input_rows_count[1] >= 2
    /\ Len(URLRow(1)) >= 5
    /\ ~EndsInSeparator(URLRow(1))
    /\ URLRow(2) = URLRow(1) \o <<63>>
    /\ ret[1].col[2] = ret[1].col[1]

(* ------------------------------------------------------------------ *)
(* C16                                                                  *)
(* ------------------------------------------------------------------ *)
\* the rows of a two-argument call that hold a URL with a protocol of chars and at least
\* as many path segments as the level asks for
RowsWithLevel(chars) ==
    { i \in 1..input_rows_count[1] :
        /\ ProtocolLengths(URLRow(i), chars) # {}
        /\ (URLLevel = 0 \/ Cardinality(SegmentEnds(URLRow(i), chars)) >= URLLevel) }

\* C16: for a URL with a protocol the function recognizes and "//", URLHash(url, N) is
\* URLHash of the prefix of level N: through the first separator after the host (N = 0), or
\* through the separator that ends the N-th path segment, or to the end of the URL if that
\* segment is the last and open; separators before a segment are skipped.
C16_HashesLevelPrefix ==
    (URLDone /\ Len(arguments[1]) = 2) =>
        \A i \in RowsWithLevel(InnerProtocolChars) :
            ret[1].col[i] =
                CityHash64(StripOne(SubSeq(URLRow(i), 1, LevelPrefix(URLRow(i), InnerProtocolChars, URLLevel))))

\* URLHash("http://x/a/b", 1) = URLHash("http://x/a/"), the hash of "http://x/a"
C16_Witness ==
    /\ URLDone
    /\ Len(arguments[1]) = 2
    /\ URLLevel = 1
    /\ input_rows_count[1] >= 1
    /\ URLRow(1) = <<104, 116, 116, 112, 58, 47, 47, 120, 47, 97, 47, 98>>
    /\ ret[1].col[1] = CityHash64(<<104, 116, 116, 112, 58, 47, 47, 120, 47, 97>>)

(* ------------------------------------------------------------------ *)
(* C17                                                                  *)
(* ------------------------------------------------------------------ *)
\* C17: for an input without a protocol followed by "://" and one more byte, URLHash(input, 0)
\* is URLHash(input), and URLHash(input, N) for N >= 1 is the hash of the empty prefix.
C17_WithoutProtocol ==
    (URLDone /\ Len(arguments[1]) = 2) =>
        \A i \in 1..input_rows_count[1] :
            ProtocolLengths(URLRow(i), LowercaseAndDigits) = {} =>
                ret[1].col[i] = IF URLLevel = 0 THEN CityHash64(StripOne(URLRow(i)))
                                ELSE CityHash64(<<>>)

C17_Witness ==
    /\ URLDone
    /\ Len(arguments[1]) = 2
    /\ URLLevel >= 1
    /\ input_rows_count[1] = MaxRows
    /\ Len(URLRow(1)) >= 5
    /\ ProtocolLengths(URLRow(1), LowercaseAndDigits) = {}
    /\ ret[1].col[1] = CityHash64(<<>>)


(* ------------------------------------------------------------------ *)
(* C20                                                                  *)
(* ------------------------------------------------------------------ *)
\* C20 as stated: every input protocol + "://" + rest, the protocol a non-empty string of
\* lowercase letters and digits ('a', 'z', '0' and '9' included) and rest non-empty, is
\* hashed as a hierarchical URL: level 0 is the prefix through the first separator after
\* the host (or the whole input), and a level with enough path segments is that level's
\* prefix, never the result of the rule for inputs without a protocol.
C20_EveryLowercaseProtocolIsHierarchical ==
    (URLDone /\ Len(arguments[1]) = 2) =>
        \A i \in RowsWithLevel(LowercaseAndDigits) :
            ret[1].col[i] =
                CityHash64(StripOne(SubSeq(URLRow(i), 1, LevelPrefix(URLRow(i), LowercaseAndDigits, URLLevel))))


(* ------------------------------------------------------------------ *)
(* C18                                                                  *)
(* ------------------------------------------------------------------ *)
FixedDone == impl \in FixedImpls /\ pc[1] = "done"

\* the seed of the call, 0 for the unseeded functions
FixedSeed == IF fixed_with_seed(impl) THEN SeedValue(arguments[1][Len(arguments[1])].column) ELSE 0

\* the bytes of row i of the first argument: a string without its terminating zero byte, or
\* the n bytes of a fixed string
FixedInputRow(i) ==
    LET c == arguments[1][1].column
    IN  IF c.kind = "String"
        THEN [k \in 1..(c.offsets[i] - StartOf(c.offsets, i) - 1) |-> c.chars[StartOf(c.offsets, i) + k]]
        ELSE [k \in 1..c.n |-> c.chars[(i - 1) * c.n + k]]

\* C18: for a String or FixedString column of n rows a fixed-digest function returns a
\* fixed-string column of width Impl::length with n rows in a buffer of n * Impl::length
\* bytes, whatever the row lengths are; output row i is the digest of input row i, taken
\* without the string's terminating zero byte.
C18_FixedWidthRows ==
    (/\ FixedDone
     /\ ret[1].err = NoErr
     /\ arguments[1][1].column.kind \in {"String", "FixedString"})
    => /\ ret[1].col.kind = "FixedString"
       /\ ret[1].col.n = length(impl)
       /\ Len(ret[1].col.chars) = input_rows_count[1] * length(impl)
       /\ \A i \in 1..input_rows_count[1] :
             SubSeq(ret[1].col.chars, (i - 1) * length(impl) + 1, i * length(impl))
                 = fixed_apply(impl, FixedInputRow(i), FixedSeed)

C18_Witness ==
    /\ FixedDone
    /\ ret[1].err = NoErr
    /\ impl = "SHA224"
    /\ input_rows_count[1] = MaxRows
    /\ arguments[1][1].column = StrOdd(MaxRows)
    /\ Len(ret[1].col.chars) = MaxRows * 28
    /\ ret[1].col.chars[1] = <<TagDigest, 1, 0, 0>>

(* ------------------------------------------------------------------ *)
(* C19                                                                  *)
(* ------------------------------------------------------------------ *)
FixedFailed(code) == ret[1].err = code /\ ret[1].col = <<>>

\* C19: a fixed-digest function takes one String or FixedString argument, and the seeded
\* variant one trailing seed: a first argument of another type is ILLEGAL_TYPE_OF_ARGUMENT, a
\* seed of a type that is not an unsigned integer is ILLEGAL_TYPE_OF_ARGUMENT, a seed column
\* that is not constant is LOGICAL_ERROR, a first column that is neither a string column nor
\* a fixed-string column is ILLEGAL_COLUMN; none of these calls returns a column, and every
\* other call does.
C19_ArgumentErrors ==
    FixedDone =>
        LET first == arguments[1][1]
            last == arguments[1][Len(arguments[1])]
            badFirstType == ~(first.type.tag \in {"String", "FixedString"})
            badSeedType == fixed_with_seed(impl) /\ ~isUnsignedInteger(last.type)
            badSeedColumn == fixed_with_seed(impl) /\ last.column.kind # "Const"
            badFirstColumn == ~(first.column.kind \in {"String", "FixedString"})
        IN  /\ Len(arguments[1]) = IF fixed_with_seed(impl) THEN 2 ELSE 1
            /\ badFirstType => FixedFailed("ILLEGAL_TYPE_OF_ARGUMENT")
            /\ (~badFirstType /\ badSeedType) => FixedFailed("ILLEGAL_TYPE_OF_ARGUMENT")
            /\ (~badFirstType /\ ~badSeedType /\ badSeedColumn) => FixedFailed("LOGICAL_ERROR")
            /\ (~badFirstType /\ ~badSeedType /\ ~badSeedColumn /\ badFirstColumn)
                   => FixedFailed("ILLEGAL_COLUMN")
            /\ (~badFirstType /\ ~badSeedType /\ ~badSeedColumn /\ ~badFirstColumn)
                   => ret[1].err = NoErr

C19_Witness ==
    /\ FixedDone
    /\ fixed_with_seed(impl)
    /\ input_rows_count[1] = MaxRows
    /\ arguments[1][1].type = TString
    /\ arguments[1][1].column.kind = "Const"
    /\ arguments[1][2].column.kind = "Const"
    /\ isUnsignedInteger(arguments[1][2].type)
    /\ FixedFailed("ILLEGAL_COLUMN")


(* ------------------------------------------------------------------ *)
(* C24                                                                  *)
(* ------------------------------------------------------------------ *)
\* C24 as stated: once the first traversed unit is behind (is_first_argument is cleared),
\* every slot of the accumulator has been assigned, so no combine step reads a slot of the
\* freshly created column; and the output of a successful call is the same whatever the
\* memory of that column held, for every argument list, empty tuples included.
C24_AssignedBeforeCombined ==
    /\ (pc[1] = "loop" /\ ~is_first_argument[1])
          => \A i \in 1..Len(vec_to[1]) : vec_to[1][i] # Uninit(junk[1], i)
    /\ Succeeded
          => /\ \A i \in 1..Len(ret[1].col) : ret[1].col[i] # Uninit(junk[1], i)
             /\ \A j \in Junks :
                   ret[1].col = executeImpl(impl, arguments[1], input_rows_count[1], j).col


(* ------------------------------------------------------------------ *)
(* C27: in a with-seed function the seed reaches the output through     *)
(* apply on byte runs only. A call whose hashed arguments are empty     *)
(* arrays, or that has no argument besides the seed, returns the same   *)
(* column under every seed: the array-length digest, combineHashes and  *)
(* the zero-argument constant do not use it. A call hashing one string  *)
(* column returns apply of each row's bytes under the low 32 bits of    *)
(* the seed constant.                                                   *)
(* ------------------------------------------------------------------ *)
EmptyArraysOnly ==
    \A k \in 1..Len(Hashed) :
        /\ Hashed[k].column.kind = "Array"
        /\ \A i \in 1..Len(Hashed[k].column.offsets) : Hashed[k].column.offsets[i] = 0

WellFormedSeeds(r) ==
    { SeedArg(sd, r) : sd \in Seeds } \cup { WideSeedArg(1, r), LowSeedArg(1, r) }

\* the low four bytes of the seed constant
SeedLowBytes == SubSeq(SeedArgument.column.cols[1].chars, 1, 4)

SeedLow32 == SeedLowBytes[1] + 256 * SeedLowBytes[2] + 65536 * SeedLowBytes[3] + 16777216 * SeedLowBytes[4]

C27_SeedOnlyThroughApply ==
    (with_seed(impl) /\ Succeeded) =>
        /\ EmptyArraysOnly =>
              \A s \in WellFormedSeeds(input_rows_count[1]) :
                  ret[1].col = executeImpl(impl, Hashed \o <<s>>, input_rows_count[1], junk[1]).col
        /\ Hashed = <<Arg(TString, StrEven(input_rows_count[1]))>> =>
              \A i \in 1..input_rows_count[1] :
                  ret[1].col[i] = <<TagApply, SeedLow32, 2>> \o <<96 + i, 0>>

C27_Witness ==
    /\ with_seed(impl) /\ Succeeded
    /\ input_rows_count[1] = MaxRows
    /\ SeedArgument = WideSeedArg(1, MaxRows)
    /\ Hashed = <<EmptyArrays(MaxRows), EmptyArrays(MaxRows)>>
    /\ ret[1].col = executeImpl(impl, Hashed \o <<SeedArg(2, MaxRows)>>, MaxRows, junk[1]).col

(* ------------------------------------------------------------------ *)
(* C25: the cursor of findLevelLength over the bytes of the column      *)
(* ------------------------------------------------------------------ *)
\* const auto * pos: pos counts the bytes of chars before the cursor, reads holds the
\* positions of chars that were dereferenced, steps counts the loop iterations
Cursor(pos, reads, steps) == [pos |-> pos, reads |-> reads, steps |-> steps]

\* *pos
Deref(cur) == [cur EXCEPT !.reads = @ \cup {cur.pos + 1}]

\* ++pos
Advance(cur) == [cur EXCEPT !.pos = @ + 1]

\* the conditions of the three kinds of scanning loop
Matches(kind, c) ==
    CASE kind = "protocol" -> IsProtocolChar(c)
      [] kind = "separators" -> IsSeparator(c)
      [] OTHER -> ~IsSeparator(c)

\* while (pos < end && <condition on *pos>) ++pos;
RECURSIVE ScanWhile(_, _, _, _)
ScanWhile(kind, chars, end, cur) ==
    IF cur.pos < end
    THEN IF Matches(kind, chars[cur.pos + 1])
         THEN ScanWhile(kind, chars, end, [Advance(Deref(cur)) EXCEPT !.steps = @ + 1])
         ELSE Deref(cur)
    ELSE cur

\* the test of "://" without the comparisons of pos with end
RECURSIVE ExpectEach_Unguarded(_, _, _, _)
ExpectEach_Unguarded(expected, chars, end, cur) ==
    IF expected = <<>> THEN [cur |-> cur, ok |-> cur.pos < end]
    ELSE IF chars[cur.pos + 1] = Head(expected)
         THEN ExpectEach_Unguarded(Tail(expected), chars, end, Advance(Deref(cur)))
         ELSE [cur |-> Advance(Deref(cur)), ok |-> FALSE]

\* *pos++ == ':' && pos < end && *pos++ == '/' && pos < end && *pos++ == '/' && pos < end
RECURSIVE ExpectEach(_, _, _, _)
ExpectEach(expected, chars, end, cur) ==
    IF expected = <<>> THEN [cur |-> cur, ok |-> TRUE]
    ELSE IF chars[cur.pos + 1] = Head(expected) /\ cur.pos + 1 < end
         THEN ExpectEach(Tail(expected), chars, end, Advance(Deref(cur)))
         ELSE [cur |-> Advance(Deref(cur)), ok |-> FALSE]

\* if (pos != end) ++pos;
StepOverCursor(end, cur) == IF cur.pos # end THEN Advance(cur) ELSE cur

\* what a run of findLevelLength returned, read, and how many iterations it made
Scanned(len, cur) == [len |-> len, reads |-> cur.reads, steps |-> cur.steps]

\* while (current_level != level && pos < end) { ... }
RECURSIVE LevelLoopCursor(_, _, _, _, _, _)
LevelLoopCursor(chars, begin, end, cur, current_level, level) ==
    IF current_level # level /\ cur.pos < end
    THEN LET c1 == ScanWhile("separators", chars, end, [cur EXCEPT !.steps = @ + 1])
         IN  IF c1.pos = end
             THEN Scanned(IF current_level = level THEN c1.pos - begin ELSE 0, c1)
             ELSE LevelLoopCursor(chars, begin, end,
                                  StepOverCursor(end, ScanWhile("segment", chars, end, c1)),
                                  current_level + 1, level)
    ELSE Scanned(IF current_level = level THEN cur.pos - begin ELSE 0, cur)

\* findLevelLength(level, begin, end) over the bytes chars[begin + 1 .. end]
findLevelLengthCursor(level, chars, begin, end) ==
    LET c0 == ScanWhile("protocol", chars, end, Cursor(begin, {}, 0))
    IN  IF c0.pos = begin \/ c0.pos = end
        THEN Scanned(IF level = 0 THEN end - begin ELSE 0, c0)
        ELSE LET h == ExpectEach(<<58, 47, 47>>, chars, end, c0)
             IN  IF ~h.ok
                 THEN Scanned(IF level = 0 THEN end - begin ELSE 0, h.cur)
                 ELSE LET c1 == StepOverCursor(end, ScanWhile("domain", chars, end, h.cur))
                      IN  IF level = 0 THEN Scanned(c1.pos - begin, c1)
                          ELSE LevelLoopCursor(chars, begin, end, c1, 0, level)

\* the run of findLevelLength on row i of the first argument of the call
RowScan(level, i) ==
    LET column == arguments[1][1].column
    IN  findLevelLengthCursor(level, column.chars, StartOf(column.offsets, i), column.offsets[i] - 1)

RowBegin(i) == StartOf(arguments[1][1].column.offsets, i)
RowEnd(i) == arguments[1][1].column.offsets[i] - 1

\* C25: for every level and every row of a two-argument call, the empty row included,
\* findLevelLength makes at most one loop iteration per byte and per level, dereferences
\* only positions inside [begin, end), and returns a length between 0 and end - begin;
\* the call returns the hash of that prefix of the row.
C25_FindLevelLengthStaysInside ==
    (URLDone /\ Len(arguments[1]) = 2) =>
        \A i \in 1..input_rows_count[1] :
            /\ \A level \in 0..(MaxLevel + 1) :
                  /\ RowScan(level, i).reads \subseteq (RowBegin(i) + 1)..RowEnd(i)
                  /\ RowScan(level, i).len \in 0..(RowEnd(i) - RowBegin(i))
                  /\ RowScan(level, i).steps <= (RowEnd(i) - RowBegin(i)) + level
                  /\ RowScan(level, i).len = findLevelLength(level, URLRow(i))
            /\ ret[1].col[i] = URLHashImpl_apply(SubSeq(URLRow(i), 1, RowScan(URLLevel, i).len))

C25_Witness ==
    /\ URLDone /\ Len(arguments[1]) = 2
    /\ input_rows_count[1] >= 2
    /\ URLLevel = 2
    /\ RowBegin(2) > 0
    /\ RowScan(2, 2).reads = (RowBegin(2) + 1)..RowEnd(2)
    /\ RowScan(2, 2).len = RowEnd(2) - RowBegin(2)
    /\ RowScan(2, 2).len >= 8
    /\ RowScan(3, 2).len = 0

(* ------------------------------------------------------------------ *)
(* C26                                                                  *)
(* ------------------------------------------------------------------ *)
\* the rows that hold a URL with a protocol findLevelLength recognizes, "://" and more
HierarchicalRows ==
    { i \in 1..input_rows_count[1] : ProtocolLengths(URLRow(i), InnerProtocolChars) # {} }

\* the number of path segments after the host
SegmentCount(s) == Cardinality(SegmentEnds(s, InnerProtocolChars))

\* C26: for a row holding a hierarchical URL with k path segments after the host, a call
\* with level k returns the hash of the whole row when the row does not end in a
\* separator; a call with a level above k returns the hash of the empty prefix, as
\* findLevelLength returns 0 (also when the k-th segment is followed by a separator and
\* the level is k + 1); and up to level k the prefix length does not decrease with the level.
C26_LevelsBeyondThePath ==
    (URLDone /\ Len(arguments[1]) = 2) =>
        \A i \in HierarchicalRows :
            LET s == URLRow(i)
                k == SegmentCount(s)
            IN  /\ (URLLevel = k /\ ~EndsInSeparator(s)) => ret[1].col[i] = CityHash64(s)
                /\ URLLevel > k =>
                      /\ findLevelLength(URLLevel, s) = 0
                      /\ ret[1].col[i] = CityHash64(<<>>)
                /\ URLLevel <= k =>
                      /\ \A N \in 0..URLLevel : findLevelLength(N, s) <= findLevelLength(URLLevel, s)
                      /\ findLevelLength(URLLevel, s) > 0
                      /\ ret[1].col[i] =
                            URLHashImpl_apply(SubSeq(s, 1, findLevelLength(URLLevel, s)))

C26_Witness ==
    /\ URLDone /\ Len(arguments[1]) = 2
    /\ input_rows_count[1] >= 2
    /\ HierarchicalRows = 1..input_rows_count[1]
    /\ URLLevel = 3
    /\ SegmentCount(URLRow(1)) = 2
    /\ ~EndsInSeparator(URLRow(1))
    /\ EndsInSeparator(URLRow(2))
    /\ SegmentCount(URLRow(2)) = 2
    /\ ret[1].col[2] = CityHash64(<<>>)
    /\ findLevelLength(2, URLRow(1)) = Len(URLRow(1))

(* ------------------------------------------------------------------ *)
(* JavaHashImpl, JavaHashUTF16LEImpl, HiveHashImpl as numbers.          *)
(* A UInt32 is held as two 16-bit limbs <<high, low>>; an Int32 is an   *)
(* integer between -2^31 and 2^31 - 1.                                  *)
(* ------------------------------------------------------------------ *)
JavaImpls == {"javaHash", "javaHashUTF16LE", "hiveHash"}

\* static_cast<UInt32>(data[i]): the byte taken as unsigned
ByteAsUInt32_Unsigned(c) == <<0, c>>

\* static_cast<UInt32>(static_cast<Int8>(data[i])): the byte sign-extended to 32 bits
ByteAsUInt32(c) == IF c >= 128 THEN <<65535, 65280 + c>> ELSE <<0, c>>

\* h = 31 * h + b in UInt32: the carry out of the high limb is dropped
MulAdd31(h, b) ==
    LET low == 31 * h[2] + b[2]
    IN  <<(31 * h[1] + b[1] + low \div 65536) % 65536, low % 65536>>

\* static_cast<Int32>(h)
ToInt32(h) == IF h[1] >= 32768 THEN (h[1] - 65536) * 65536 + h[2] ELSE h[1] * 65536 + h[2]

\* static_cast<UInt32>(x), x an Int32
ToUInt32(x) == <<(x \div 65536) % 65536, x % 65536>>

\* for (size_t i = 0; i < size; ++i) h = 31 * h + static_cast<UInt32>(static_cast<Int8>(data[i]));
RECURSIVE JavaHashLoop(_, _)
JavaHashLoop(h, data) ==
    IF data = <<>> THEN h ELSE JavaHashLoop(MulAdd31(h, ByteAsUInt32(Head(data))), Tail(data))

\* JavaHashImpl::apply(data, size)
JavaHashImpl_apply(data) == ToInt32(JavaHashLoop(<<0, 0>>, data))

\* HiveHashImpl::apply(data, size): 0x7FFFFFFF & static_cast<UInt32>(JavaHashImpl::apply(data, size))
HiveHashImpl_apply(data) ==
    LET h == ToUInt32(JavaHashImpl_apply(data))
    IN  ToInt32(<<h[1] % 32768, h[2]>>)

\* the byte order mark kept in the data
RemoveBOM_Never(data) == data

\* if (size >= 2 && data[0] == '\xFF' && data[1] == '\xFE') { data += 2; size -= 2; }
RemoveBOM(data) ==
    IF Len(data) >= 2 /\ data[1] = 255 /\ data[2] = 254 THEN SubSeq(data, 3, Len(data)) ELSE data

\* for (size_t i = 0; i < size; i += 2) h = 31 * h + static_cast<UInt16>(data[i] | data[i + 1] << 8);
RECURSIVE JavaHashUTF16LELoop(_, _)
JavaHashUTF16LELoop(h, data) ==
    IF data = <<>> THEN h
    ELSE JavaHashUTF16LELoop(MulAdd31(h, <<0, data[1] + 256 * data[2]>>), SubSeq(data, 3, Len(data)))

\* JavaHashUTF16LEImpl::apply(raw_data, raw_size)
JavaHashUTF16LEImpl_apply(raw_data) ==
    LET data == RemoveBOM(raw_data)
    IN  IF Len(data) % 2 # 0 THEN Throw("BAD_ARGUMENTS")
        ELSE Ok(ToInt32(JavaHashUTF16LELoop(<<0, 0>>, data)))

\* Impl::apply of the three policies
JavaFamily_apply(Impl, data) ==
    CASE Impl = "javaHash" -> Ok(JavaHashImpl_apply(data))
      [] Impl = "hiveHash" -> Ok(HiveHashImpl_apply(data))
      [] OTHER -> JavaHashUTF16LEImpl_apply(data)

(* ------------------------------------------------------------------ *)
(* Calls of javaHash, javaHashUTF16LE and hiveHash on one String        *)
(* column: executeString writes the rows in order into vec_to           *)
(* ------------------------------------------------------------------ *)
\* the strings hashed: every string over 'a' and 0xFF, the same after a byte order mark
\* for the short ones, and the strings over the bytes of the mark
JavaStrings ==
    StringsOver({97, 255}, MaxBytes)
    \cup { <<255, 254>> \o b : b \in StringsOver({97, 255}, 3) }
    \cup StringsOver({255, 254}, 4)

\* r rows: s, then s after a byte order mark, then s again, ...
MarkedColumn(s, r) == StringColumn([i \in 1..r |-> IF i % 2 = 0 THEN <<255, 254>> \o s ELSE s])

JavaArgumentLists ==
    { <<Arg(TString, MarkedColumn(s, r))>> : s \in JavaStrings, r \in 0..MaxRows }
    \cup { <<Arg(TString, URLColumn(s, 97, r))>> : s \in JavaStrings, r \in 0..MaxRows }

InitJava ==
    /\ impl \in JavaImpls
    /\ seed = 0
    /\ pc = [t \in Threads |-> "idle"]
    /\ arguments = [t \in Threads |-> <<>>]
    /\ input_rows_count = [t \in Threads |-> 0]
    /\ junk = [t \in Threads |-> 0]
    /\ vec_to = [t \in Threads |-> <<>>]
    /\ is_first_argument = [t \in Threads |-> TRUE]
    /\ idx = [t \in Threads |-> 0]
    /\ ret = [t \in Threads |-> NoRet]
    /\ storages = <<>>
    /\ creator_calls = <<>>
    /\ array_join = NoAction
    /\ block = <<>>

\* a caller invokes the function on one String column; executeImpl reaches executeString
JavaCall ==
    /\ pc[1] = "idle"
    /\ \E args \in JavaArgumentLists :
        /\ arguments' = [arguments EXCEPT ![1] = args]
        /\ input_rows_count' = [input_rows_count EXCEPT ![1] = ColSize(args[1].column)]
    /\ pc' = [pc EXCEPT ![1] = "loop"]
    /\ idx' = [idx EXCEPT ![1] = 1]
    /\ vec_to' = [vec_to EXCEPT ![1] = <<>>]
    /\ ret' = [ret EXCEPT ![1] = NoRet]
    /\ UNCHANGED <<impl, seed, junk, is_first_argument>>
    /\ UNCHANGED <<factory_vars, join_vars>>

\* one iteration of the row loop of executeString<first = true>: vec_to[i] = h, or apply
\* throws; vec_to holds the slots written so far
JavaRow ==
    /\ pc[1] = "loop"
    /\ idx[1] <= input_rows_count[1]
    /\ LET h == JavaFamily_apply(impl, StringRow(arguments[1][1].column, idx[1]))
       IN  IF h.err # NoErr
           THEN /\ pc' = [pc EXCEPT ![1] = "done"]
                /\ ret' = [ret EXCEPT ![1] = [err |-> h.err, col |-> <<>>]]
                /\ UNCHANGED <<vec_to, idx>>
           ELSE /\ vec_to' = [vec_to EXCEPT ![1] = Append(@, h.h)]
                /\ idx' = [idx EXCEPT ![1] = @ + 1]
                /\ UNCHANGED <<pc, ret>>
    /\ UNCHANGED <<impl, seed, arguments, input_rows_count, junk, is_first_argument>>
    /\ UNCHANGED <<factory_vars, join_vars>>

\* return col_to;
JavaReturn ==
    /\ pc[1] = "loop"
    /\ idx[1] > input_rows_count[1]
    /\ pc' = [pc EXCEPT ![1] = "done"]
    /\ ret' = [ret EXCEPT ![1] = [err |-> NoErr, col |-> vec_to[1]]]
    /\ UNCHANGED <<impl, seed, arguments, input_rows_count, junk, vec_to, is_first_argument, idx>>
    /\ UNCHANGED <<factory_vars, join_vars>>

JavaFinish == Finish(1)

NextJava == JavaCall \/ JavaRow \/ JavaReturn \/ JavaFinish

SpecJava == InitJava /\ [][NextJava]_vars

(* ------------------------------------------------------------------ *)
(* C22                                                                  *)
(* ------------------------------------------------------------------ *)
JavaDone == impl \in JavaImpls /\ pc[1] = "done"

\* the row i of the column the call hashes
JavaRowBytes(i) == StringRow(arguments[1][1].column, i)

\* a value wrapped into the signed 32-bit range, for |x| below 2^31: the value is given
\* as high * 65536 + low with 0 <= low < 65536
WrapSigned(high, low) == (((high + 32768) % 65536) - 32768) * 65536 + low

\* Java's int arithmetic 31 * h + x on a signed 32-bit h, two's complement wrap
JavaStep(h, x) ==
    LET t == 31 * (h % 65536) + x
    IN  WrapSigned(31 * (h \div 65536) + t \div 65536, t % 65536)

\* String.hashCode over a sequence of numbers: h := 31 * h + x from h = 0
RECURSIVE HashCode(_, _)
HashCode(h, xs) == IF xs = <<>> THEN h ELSE HashCode(JavaStep(h, Head(xs)), Tail(xs))

\* the bytes as signed 8-bit numbers
SignedBytes(data) == [k \in 1..Len(data) |-> IF data[k] >= 128 THEN data[k] - 256 ELSE data[k]]

\* x AND 0x7FFFFFFF for a signed 32-bit x
ClearSignBit(x) == IF x < 0 THEN (x + 2147483647) + 1 ELSE x

\* C22: javaHash of a string is the recurrence h := 31 * h + b from 0 over its bytes taken
\* as signed 8-bit numbers, wrapping modulo 2^32 and read as a signed 32-bit number (0 for
\* the empty string); hiveHash is the same number with the sign bit cleared, between 0
\* and 2^31 - 1. One output row per input row.
C22_JavaAndHiveHash ==
    (JavaDone /\ impl \in {"javaHash", "hiveHash"}) =>
        /\ ret[1].err = NoErr
        /\ Len(ret[1].col) = input_rows_count[1]
        /\ \A i \in 1..input_rows_count[1] :
              LET j == HashCode(0, SignedBytes(JavaRowBytes(i)))
              IN  /\ -2147483647 - 1 <= j /\ j <= 2147483647
                  /\ JavaRowBytes(i) = <<>> => j = 0
                  /\ impl = "javaHash" => ret[1].col[i] = j
                  /\ impl = "hiveHash" =>
                        /\ ret[1].col[i] = ClearSignBit(j)
                        /\ 0 <= ret[1].col[i] /\ ret[1].col[i] <= 2147483647

\* hiveHash of a string whose javaHash is negative after the sum has wrapped
C22_Witness ==
    /\ JavaDone /\ impl = "hiveHash"
    /\ input_rows_count[1] >= 2
    /\ Len(JavaRowBytes(1)) >= 8
    /\ \E k \in 1..Len(JavaRowBytes(1)) : JavaRowBytes(1)[k] = 255
    /\ JavaHashImpl_apply(JavaRowBytes(1)) < 0
    /\ ret[1].col[1] = JavaHashImpl_apply(JavaRowBytes(1)) + 2147483647 + 1
    /\ ret[1].col[1] > 0

(* ------------------------------------------------------------------ *)
(* C23                                                                  *)
(* ------------------------------------------------------------------ *)
StartsWithMark(data) == Len(data) >= 2 /\ data[1] = 255 /\ data[2] = 254

\* the 16-bit units of an even-length byte run, low byte first
UnitsOf(data) == [k \in 1..(Len(data) \div 2) |-> data[2 * k - 1] + 256 * data[2 * k]]

\* data without one leading FF FE
Unmarked(data) == IF StartsWithMark(data) THEN SubSeq(data, 3, Len(data)) ELSE data

OddRows == { i \in 1..input_rows_count[1] : Len(JavaRowBytes(i)) % 2 = 1 }

\* C23: javaHashUTF16LE throws BAD_ARGUMENTS exactly when a row has an odd number of
\* bytes, and then returns no column: the loop stops at the first such row. Otherwise
\* every row is the recurrence h := 31 * h + u over the 16-bit little-endian units u of
\* the row without one leading FF FE, wrapping modulo 2^32; so a row FF FE + s hashes
\* as the row s when s has even length and does not start with FF FE.
C23_JavaHashUTF16LE ==
    (JavaDone /\ impl = "javaHashUTF16LE") =>
        /\ ret[1].err = (IF OddRows = {} THEN NoErr ELSE "BAD_ARGUMENTS")
        /\ OddRows # {} =>
              /\ ret[1].col = <<>>
              /\ \A i \in OddRows : idx[1] <= i
              /\ idx[1] \in OddRows
        /\ OddRows = {} =>
              /\ Len(ret[1].col) = input_rows_count[1]
              /\ \A i \in 1..input_rows_count[1] :
                    /\ ret[1].col[i] = HashCode(0, UnitsOf(Unmarked(JavaRowBytes(i))))
                    /\ \A j \in 1..input_rows_count[1] :
                          (/\ JavaRowBytes(j) = <<255, 254>> \o JavaRowBytes(i)
                           /\ ~StartsWithMark(JavaRowBytes(i)))
                          => ret[1].col[j] = ret[1].col[i]

\* a call on s and FF FE + s, s of ten bytes, whose hash has wrapped below zero
C23_Witness ==
    /\ JavaDone /\ impl = "javaHashUTF16LE"
    /\ ret[1].err = NoErr
    /\ input_rows_count[1] >= 2
    /\ Len(JavaRowBytes(1)) >= 10
    /\ JavaRowBytes(2) = <<255, 254>> \o JavaRowBytes(1)
    /\ ret[1].col[2] = ret[1].col[1]
    /\ ret[1].col[1] < 0

(* ------------------------------------------------------------------ *)
(* FunctionIntHash: intHash32 and intHash64                             *)
(* A UInt64 argument of IntHash32Impl / IntHash64Impl is given by its   *)
(* eight bytes, low byte first.                                         *)
(* ------------------------------------------------------------------ *)
IntHashImpls == {"intHash32", "intHash64"}

\* IDataType::isValueRepresentedByNumber
isValueRepresentedByNumber(type) ==
    type.tag \in {"UInt8", "UInt16", "UInt32", "UInt64", "UInt128", "UInt256",
                  "Int8", "Int16", "Int32", "Int64", "Int128", "Int256",
                  "Float32", "Float64", "Enum8", "Enum16", "Date", "Date32", "DateTime",
                  "DateTime64", "Decimal32", "Decimal64", "Decimal128", "Decimal256", "UUID"}

\* FunctionIntHash::getReturnTypeImpl: the error it throws, or NoErr
IntHash_getReturnTypeImpl(args) ==
    IF ~isValueRepresentedByNumber(args[1].type) THEN "ILLEGAL_TYPE_OF_ARGUMENT" ELSE NoErr

\* the signed FromTypes
IsSignedFromType(FromType) ==
    FromType \in {"Int8", "Int16", "Int32", "Int64", "Decimal32", "Decimal64"}

\* the conversion of vec_from[i] to UInt64 taking the value for unsigned
ToUInt64_ZeroExtended(FromType, bytes) == bytes \o [k \in 1..(8 - Len(bytes)) |-> 0]

\* the conversion of vec_from[i] to the UInt64 parameter of Impl::apply: the value is
\* kept modulo 2^64, so a negative value is extended with one bits
ToUInt64(FromType, bytes) ==
    bytes \o [k \in 1..(8 - Len(bytes)) |->
                 IF IsSignedFromType(FromType) /\ bytes[Len(bytes)] >= 128 THEN 255 ELSE 0]

\* Impl::apply(x) of IntHash32Impl / IntHash64Impl
IntHash_apply(Impl, x) == IF Impl = "intHash32" THEN IntHash32Impl(x) ELSE IntHash64Impl(x)

\* FunctionIntHash::executeType<FromType>
executeType(Impl, FromType, args) ==
    LET col_from == args[1].column
    IN  IF col_from.kind = "Vector" /\ col_from.elem = FromType
        THEN [err |-> NoErr,
              col |-> [i \in 1..ColSize(col_from) |->
                          IntHash_apply(Impl, ToUInt64(FromType, ValueBytes(col_from, i)))]]
        ELSE [err |-> "ILLEGAL_COLUMN", col |-> <<>>]

\* FunctionIntHash::executeImpl
IntHash_executeImpl(Impl, args) ==
    LET which == args[1].type.tag
    IN  CASE which \in {"UInt8", "UInt16", "UInt32", "UInt64", "Int8", "Int16", "Int32", "Int64"} ->
                executeType(Impl, which, args)
          [] which = "Date" -> executeType(Impl, "UInt16", args)
          [] which = "Date32" -> executeType(Impl, "Int32", args)
          [] which = "DateTime" -> executeType(Impl, "UInt32", args)
          [] which \in {"Decimal32", "Decimal64"} -> executeType(Impl, which, args)
          [] OTHER -> [err |-> "ILLEGAL_TYPE_OF_ARGUMENT", col |-> <<>>]

(* ------------------------------------------------------------------ *)
(* Calls of intHash32 / intHash64: one caller of one instance           *)
(* ------------------------------------------------------------------ *)
\* the type tags of the arguments passed
IntHashTags ==
    {"UInt8", "UInt16", "UInt32", "UInt64", "UInt128", "UInt256",
     "Int8", "Int16", "Int32", "Int64", "Int128", "Int256",
     "Float32", "Float64", "Enum8", "Enum16", "Date", "Date32", "DateTime",
     "DateTime64", "Decimal32", "Decimal64", "Decimal128", "Decimal256", "UUID"}

\* r rows of the column of a type: row i holds i in its low byte and top in its high byte
NumberColumn(tag, top, r) ==
    LET n == SizeOf(FromTypeOf(tag))
    IN  VectorColumn(FromTypeOf(tag),
                     Concat([i \in 1..r |->
                                [k \in 1..n |-> IF k = n THEN (IF n = 1 THEN top + i ELSE top)
                                                ELSE IF k = 1 THEN i ELSE 0]]))

\* the high bytes: a value with the top bit clear, and one with it set
TopBytes == {0, 200}

IntHashArgumentLists ==
    { <<Arg(Ty(tag, <<>>), NumberColumn(tag, top, r))>> :
        tag \in IntHashTags, top \in TopBytes, r \in 0..MaxRows }
    \cup { <<a>> : a \in { Arg(TString, StrEven(MaxRows)),
                           Arg(Ty("FixedString", <<>>), FixedStringColumn(2, [i \in 1..MaxRows |-> <<i, i>>])),
                           EmptyArrays(MaxRows),
                           Arg(Ty("Tuple", <<TUInt8, TString>>), TupleColumn(<<U8(40, MaxRows), StrEven(MaxRows)>>, MaxRows)),
                           Arg(TUInt8, NumberColumn("UInt16", 0, MaxRows)),
                           Arg(Ty("Int32", <<>>), ColumnConst(NumberColumn("Int32", 0, 1), MaxRows)) } }

InitIntHash ==
    /\ impl \in IntHashImpls
    /\ seed = 0
    /\ pc = [t \in Threads |-> "idle"]
    /\ arguments = [t \in Threads |-> <<>>]
    /\ input_rows_count = [t \in Threads |-> 0]
    /\ junk = [t \in Threads |-> 0]
    /\ vec_to = [t \in Threads |-> <<>>]
    /\ is_first_argument = [t \in Threads |-> TRUE]
    /\ idx = [t \in Threads |-> 0]
    /\ ret = [t \in Threads |-> NoRet]
    /\ storages = <<>>
    /\ creator_calls = <<>>
    /\ array_join = NoAction
    /\ block = <<>>

\* a caller invokes the function on one argument: getReturnTypeImpl runs first
IntHashCall ==
    /\ pc[1] = "idle"
    /\ \E args \in IntHashArgumentLists :
        /\ arguments' = [arguments EXCEPT ![1] = args]
        /\ input_rows_count' = [input_rows_count EXCEPT ![1] = ColSize(args[1].column)]
        /\ IF IntHash_getReturnTypeImpl(args) # NoErr
           THEN /\ pc' = [pc EXCEPT ![1] = "done"]
                /\ ret' = [ret EXCEPT ![1] = [err |-> IntHash_getReturnTypeImpl(args), col |-> <<>>]]
           ELSE /\ pc' = [pc EXCEPT ![1] = "begin"]
                /\ ret' = [ret EXCEPT ![1] = NoRet]
    /\ idx' = [idx EXCEPT ![1] = 0]
    /\ UNCHANGED <<impl, seed, junk, vec_to, is_first_argument>>
    /\ UNCHANGED <<factory_vars, join_vars>>

\* FunctionIntHash::executeImpl returns the output column or throws; idx = 1 records that
\* executeImpl was entered
IntHashExecute ==
    /\ pc[1] = "begin"
    /\ ret' = [ret EXCEPT ![1] = IntHash_executeImpl(impl, arguments[1])]
    /\ idx' = [idx EXCEPT ![1] = 1]
    /\ pc' = [pc EXCEPT ![1] = "done"]
    /\ UNCHANGED <<impl, seed, arguments, input_rows_count, junk, vec_to, is_first_argument>>
    /\ UNCHANGED <<factory_vars, join_vars>>

IntHashFinish == Finish(1)

NextIntHash == IntHashCall \/ IntHashExecute \/ IntHashFinish

SpecIntHash == InitIntHash /\ [][NextIntHash]_vars

(* ------------------------------------------------------------------ *)
(* C21                                                                  *)
(* ------------------------------------------------------------------ *)
IntHashDone == impl \in IntHashImpls /\ pc[1] = "done"

\* the types the functions hash, and those among them whose values are signed
HashedNumberTags ==
    {"UInt8", "UInt16", "UInt32", "UInt64", "Int8", "Int16", "Int32", "Int64",
     "Date", "Date32", "DateTime", "Decimal32", "Decimal64"}
SignedNumberTags == {"Int8", "Int16", "Int32", "Int64", "Date32", "Decimal32", "Decimal64"}

\* the types represented by a number that the functions do not hash
OtherNumberTags ==
    {"Float32", "Float64", "Enum8", "Enum16", "UInt128", "UInt256", "Int128", "Int256",
     "Decimal128", "Decimal256", "DateTime64", "UUID"}

\* the types not represented by a number
NotNumberTags == {"String", "FixedString", "Array", "Tuple", "Map"}

\* the bytes of row i of the argument
NumberBytes(i) == ValueBytes(arguments[1][1].column, i)

\* byte k of the value of row i widened to 64 bits: the bytes of the value, then the sign
WidenedByte(i, k) ==
    IF k <= Len(NumberBytes(i)) THEN NumberBytes(i)[k]
    ELSE IF arguments[1][1].type.tag \in SignedNumberTags /\ NumberBytes(i)[Len(NumberBytes(i))] >= 128
    THEN 255 ELSE 0

\* the argument's column is the full column of its type
IsColumnOfType ==
    /\ arguments[1][1].column.kind = "Vector"
    /\ arguments[1][1].column.elem = FromTypeOf(arguments[1][1].type.tag)

\* C21: intHash32 / intHash64 return, for every row of a column of one of the thirteen
\* types UInt8..UInt64, Int8..Int64, Date, Date32, DateTime, Decimal32, Decimal64, the
\* 32-bit / 64-bit integer hash of the value widened to 64 bits, one output row per input
\* row; a type not represented by a number fails the type check with
\* ILLEGAL_TYPE_OF_ARGUMENT before executeImpl is entered; any other type represented by
\* a number fails in executeImpl with ILLEGAL_TYPE_OF_ARGUMENT.
C21_IntHashTypes ==
    IntHashDone =>
        LET tag == arguments[1][1].type.tag
        IN  /\ tag \in HashedNumberTags \cup OtherNumberTags \cup NotNumberTags
            /\ tag \in NotNumberTags =>
                  ret[1] = [err |-> "ILLEGAL_TYPE_OF_ARGUMENT", col |-> <<>>] /\ idx[1] = 0
            /\ tag \in OtherNumberTags =>
                  ret[1] = [err |-> "ILLEGAL_TYPE_OF_ARGUMENT", col |-> <<>>] /\ idx[1] = 1
            /\ (tag \in HashedNumberTags /\ IsColumnOfType) =>
                  /\ ret[1].err = NoErr
                  /\ Len(ret[1].col) = input_rows_count[1]
                  /\ \A i \in 1..input_rows_count[1] :
                        ret[1].col[i] =
                            <<(IF impl = "intHash32" THEN TagInt32 ELSE TagInt64),
                              [k \in 1..8 |-> WidenedByte(i, k)]>>

\* intHash32 of a Date32 column of negative values
C21_Witness ==
    /\ IntHashDone /\ impl = "intHash32"
    /\ arguments[1][1].type.tag = "Date32"
    /\ input_rows_count[1] = MaxRows
    /\ ret[1].err = NoErr
    /\ ret[1].col[MaxRows] = <<TagInt32, <<MaxRows, 0, 0, 200, 255, 255, 255, 255>>>>

(* ------------------------------------------------------------------ *)
(* StorageFactory: registerStorage, get, getSourceAccessType            *)
(* ------------------------------------------------------------------ *)
\* struct StorageFeatures
StorageFeatures(supported, access) ==
    [supports_settings |-> supported, supports_sort_order |-> supported, supports_ttl |-> supported,
     supports_skipping_indices |-> supported, supports_projections |-> supported,
     source_access_type |-> access]

\* struct Creator { CreatorFn creator_fn; StorageFeatures features; }
Creator(creator_fn, features) == [creator_fn |-> creator_fn, features |-> features]

\* storages.insert_or_assign(name, creator): the later registration wins
emplace_Overwrites(map, name, creator) ==
    [map |-> [n \in DOMAIN map \cup {name} |-> IF n = name THEN creator ELSE map[n]],
     second |-> ~(name \in DOMAIN map)]

\* storages.emplace(name, creator): the map afterwards, and whether it inserted
emplace(map, name, creator) ==
    IF name \in DOMAIN map THEN [map |-> map, second |-> FALSE]
    ELSE [map |-> [n \in DOMAIN map \cup {name} |-> IF n = name THEN creator ELSE map[n]],
          second |-> TRUE]

\* StorageFactory::registerStorage: the registry afterwards and the error thrown, or NoErr
StorageFactory_registerStorage(map, name, creator_fn, features) ==
    LET e == emplace(map, name, Creator(creator_fn, features))
    IN  [storages |-> e.map, err |-> IF ~e.second THEN "LOGICAL_ERROR" ELSE NoErr]

\* StorageFactory::getSourceAccessType
StorageFactory_getSourceAccessType(map, table_engine) ==
    IF ~(table_engine \in DOMAIN map) THEN "NONE" ELSE map[table_engine].features.source_access_type

\* check_feature: the clauses of the definition that the engine's features do not support
UnsupportedClauses(query, features) ==
    LET storage_def == query.storage[1]
    IN  { c \in {"settings", "sort_order", "ttl", "indices", "projections"} :
            \/ c = "settings" /\ storage_def.settings /\ ~features.supports_settings
            \/ c = "sort_order" /\ storage_def.sort_order /\ ~features.supports_sort_order
            \/ c = "ttl" /\ (storage_def.ttl_table \/ query.column_ttls) /\ ~features.supports_ttl
            \/ c = "indices" /\ query.indices /\ ~features.supports_skipping_indices
            \/ c = "projections" /\ query.projections /\ ~features.supports_projections }

\* the validation with the names View, MaterializedView and LiveView accepted in ENGINE
StorageFactory_validate_AnyEngineName(map, query) ==
    CASE query.is_ordinary_view ->
            IF query.storage # <<>> THEN [err |-> "INCORRECT_QUERY", name |-> ""]
            ELSE [err |-> NoErr, name |-> "View"]
      [] query.is_live_view ->
            IF query.storage # <<>> THEN [err |-> "INCORRECT_QUERY", name |-> ""]
            ELSE [err |-> NoErr, name |-> "LiveView"]
      [] query.is_dictionary ->
            IF query.storage # <<>> THEN [err |-> "INCORRECT_QUERY", name |-> ""]
            ELSE [err |-> NoErr, name |-> "Dictionary"]
      [] OTHER ->
            IF query.cannot_be_stored THEN [err |-> "DATA_TYPE_CANNOT_BE_USED_IN_TABLES", name |-> ""]
            ELSE IF query.is_materialized_view THEN [err |-> NoErr, name |-> "MaterializedView"]
            ELSE IF query.storage = <<>> THEN [err |-> "ENGINE_REQUIRED", name |-> ""]
            ELSE IF query.storage[1].engine.parameters
            THEN [err |-> "FUNCTION_CANNOT_HAVE_PARAMETERS", name |-> ""]
            ELSE IF ~(query.storage[1].engine.name \in DOMAIN map)
            THEN [err |-> "UNKNOWN_STORAGE", name |-> query.storage[1].engine.name]
            ELSE IF UnsupportedClauses(query, map[query.storage[1].engine.name].features) # {}
            THEN [err |-> "BAD_ARGUMENTS", name |-> query.storage[1].engine.name]
            ELSE [err |-> NoErr, name |-> query.storage[1].engine.name]

\* StorageFactory::get up to the construction of Arguments: the error thrown, or NoErr
\* and the engine name resolved
StorageFactory_validate(map, query) ==
    CASE query.is_ordinary_view ->
            IF query.storage # <<>> THEN [err |-> "INCORRECT_QUERY", name |-> ""]
            ELSE [err |-> NoErr, name |-> "View"]
      [] query.is_live_view ->
            IF query.storage # <<>> THEN [err |-> "INCORRECT_QUERY", name |-> ""]
            ELSE [err |-> NoErr, name |-> "LiveView"]
      [] query.is_dictionary ->
            IF query.storage # <<>> THEN [err |-> "INCORRECT_QUERY", name |-> ""]
            ELSE [err |-> NoErr, name |-> "Dictionary"]
      [] OTHER ->
            IF query.cannot_be_stored THEN [err |-> "DATA_TYPE_CANNOT_BE_USED_IN_TABLES", name |-> ""]
            ELSE IF query.is_materialized_view THEN [err |-> NoErr, name |-> "MaterializedView"]
            ELSE IF query.storage = <<>> THEN [err |-> "ENGINE_REQUIRED", name |-> ""]
            ELSE IF query.storage[1].engine.parameters
            THEN [err |-> "FUNCTION_CANNOT_HAVE_PARAMETERS", name |-> ""]
            ELSE IF query.storage[1].engine.name \in {"View", "MaterializedView", "LiveView"}
            THEN [err |-> "INCORRECT_QUERY", name |-> query.storage[1].engine.name]
            ELSE IF ~(query.storage[1].engine.name \in DOMAIN map)
            THEN [err |-> "UNKNOWN_STORAGE", name |-> query.storage[1].engine.name]
            ELSE IF UnsupportedClauses(query, map[query.storage[1].engine.name].features) # {}
            THEN [err |-> "BAD_ARGUMENTS", name |-> query.storage[1].engine.name]
            ELSE [err |-> NoErr, name |-> query.storage[1].engine.name]

(* ------------------------------------------------------------------ *)
(* Calls of the StorageFactory: one caller                              *)
(* ------------------------------------------------------------------ *)
EngineNames == {"View", "LiveView", "Dictionary", "MaterializedView", "MergeTree"}

\* the creator functions registered
CreatorFns == {1, 2}

FeaturePool == { StorageFeatures(FALSE, "NONE"), StorageFeatures(TRUE, "FILE") }

\* ASTStorage with its engine: ASTFunction name, parameters, and the clauses present
StorageDef(name, parameters, clause) ==
    [engine |-> [name |-> name, parameters |-> parameters],
     settings |-> clause = "settings", sort_order |-> clause = "sort_order",
     ttl_table |-> clause = "ttl"]

\* ASTCreateQuery with what get reads of the columns
CreateQuery(kind, storage, clause, cannot_be_stored) ==
    [is_ordinary_view |-> kind = "view", is_live_view |-> kind = "live_view",
     is_dictionary |-> kind = "dictionary", is_materialized_view |-> kind = "materialized_view",
     storage |-> storage, column_ttls |-> clause = "column_ttls", indices |-> clause = "indices",
     projections |-> clause = "projections", cannot_be_stored |-> cannot_be_stored]

Queries ==
    { CreateQuery(kind, storage, "none", cannot_be_stored) :
        kind \in {"view", "live_view", "dictionary", "materialized_view"},
        storage \in {<<>>, <<StorageDef("MergeTree", FALSE, "settings")>>},
        cannot_be_stored \in BOOLEAN }
    \cup { CreateQuery("table", <<>>, "none", b) : b \in BOOLEAN }
    \cup { CreateQuery("table", <<StorageDef(name, FALSE, clause)>>, clause, FALSE) :
             name \in EngineNames \cup {"Memory"},
             clause \in {"none", "settings", "sort_order", "ttl", "column_ttls", "indices", "projections"} }
    \cup { CreateQuery("table", <<StorageDef(name, TRUE, "none")>>, "none", b) :
             name \in {"MergeTree", "View", "Memory"}, b \in BOOLEAN }

InitStorage ==
    /\ impl = "StorageFactory"
    /\ seed = 0
    /\ pc = [t \in Threads |-> "idle"]
    /\ arguments = [t \in Threads |-> <<>>]
    /\ input_rows_count = [t \in Threads |-> 0]
    /\ junk = [t \in Threads |-> 0]
    /\ vec_to = [t \in Threads |-> <<>>]
    /\ is_first_argument = [t \in Threads |-> TRUE]
    /\ idx = [t \in Threads |-> 0]
    /\ ret = [t \in Threads |-> NoRet]
    /\ storages = <<>>
    /\ creator_calls = <<>>
    /\ array_join = NoAction
    /\ block = <<>>

\* registerStorage(name, creator_fn, features)
StorageRegister ==
    /\ pc[1] = "idle"
    /\ \E name \in EngineNames, creator_fn \in CreatorFns, features \in FeaturePool :
        /\ name \in DOMAIN storages \/ Cardinality(DOMAIN storages) < MaxEngines
        /\ LET r == StorageFactory_registerStorage(storages, name, creator_fn, features)
           IN  /\ storages' = r.storages
               /\ ret' = [ret EXCEPT ![1] = [err |-> r.err, col |-> <<>>]]
        /\ arguments' = [arguments EXCEPT ![1] =
               <<[call |-> "registerStorage", name |-> name, creator_fn |-> creator_fn, features |-> features]>>]
    /\ pc' = [pc EXCEPT ![1] = "done"]
    /\ UNCHANGED <<impl, seed, input_rows_count, junk, vec_to, is_first_argument, idx, creator_calls, join_vars>>

\* getSourceAccessType(table_engine)
StorageAccessType ==
    /\ pc[1] = "idle"
    /\ \E table_engine \in EngineNames \cup {"Memory"} :
        /\ ret' = [ret EXCEPT ![1] =
               [err |-> NoErr, col |-> <<StorageFactory_getSourceAccessType(storages, table_engine)>>]]
        /\ arguments' = [arguments EXCEPT ![1] = <<[call |-> "getSourceAccessType", name |-> table_engine]>>]
    /\ pc' = [pc EXCEPT ![1] = "done"]
    /\ UNCHANGED <<impl, seed, input_rows_count, junk, vec_to, is_first_argument, idx, factory_vars, join_vars>>

\* get(query, ...) up to the construction of Arguments: the engine name is resolved and
\* the definition validated
StorageGetValidate ==
    /\ pc[1] = "idle"
    /\ \E query \in Queries :
        LET v == StorageFactory_validate(storages, query)
        IN  /\ arguments' = [arguments EXCEPT ![1] = <<[call |-> "get", name |-> v.name, query |-> query]>>]
            /\ IF v.err # NoErr
               THEN /\ pc' = [pc EXCEPT ![1] = "done"]
                    /\ ret' = [ret EXCEPT ![1] = [err |-> v.err, col |-> <<>>]]
               ELSE /\ pc' = [pc EXCEPT ![1] = "begin"]
                    /\ ret' = [ret EXCEPT ![1] = NoRet]
    /\ creator_calls' = <<>>
    /\ UNCHANGED <<impl, seed, input_rows_count, junk, vec_to, is_first_argument, idx, storages, join_vars>>

\* auto res = storages.at(name).creator_fn(arguments); return res;  at() throws
\* std::out_of_range for a name that is not registered, and the creator may throw
StorageGetCreate ==
    /\ pc[1] = "begin"
    /\ LET name == arguments[1][1].name
       IN  IF ~(name \in DOMAIN storages)
           THEN /\ ret' = [ret EXCEPT ![1] = [err |-> "std::out_of_range", col |-> <<>>]]
                /\ UNCHANGED creator_calls
           ELSE /\ creator_calls' = Append(creator_calls, storages[name].creator_fn)
                /\ \E threw \in BOOLEAN :
                      ret' = [ret EXCEPT ![1] =
                          IF threw THEN [err |-> "exception of the creator", col |-> <<>>]
                          ELSE [err |-> NoErr,
                                col |-> <<[engine_name |-> name, creator_fn |-> storages[name].creator_fn]>>]]
    /\ pc' = [pc EXCEPT ![1] = "done"]
    /\ UNCHANGED <<impl, seed, arguments, input_rows_count, junk, vec_to, is_first_argument, idx, storages, join_vars>>

StorageFinish == Finish(1)

NextStorage == StorageRegister \/ StorageAccessType \/ StorageGetValidate \/ StorageGetCreate \/ StorageFinish

SpecStorage == InitStorage /\ [][NextStorage]_vars

(* ------------------------------------------------------------------ *)
(* C28                                                                  *)
(* ------------------------------------------------------------------ *)
StorageCallDone(call) ==
    /\ impl = "StorageFactory" /\ pc[1] = "done"
    /\ arguments[1][1].call = call

\* the step is a call of registerStorage
IsRegisterStep == pc[1] = "idle" /\ pc'[1] = "done" /\ arguments'[1][1].call = "registerStorage"

\* C28: a registered engine name keeps the creator and the features it was first
\* registered with through every later call; registerStorage of a name that is present
\* throws LOGICAL_ERROR and leaves the registry as it was, registerStorage of a new name
\* adds exactly that entry; getSourceAccessType of a name that is not registered is NONE.
C28_FirstRegistrationWins ==
    /\ [](StorageCallDone("getSourceAccessType") =>
            /\ ~(arguments[1][1].name \in DOMAIN storages) => ret[1].col = <<"NONE">>
            /\ arguments[1][1].name \in DOMAIN storages =>
                  ret[1].col = <<storages[arguments[1][1].name].features.source_access_type>>)
    /\ [][/\ \A n \in DOMAIN storages : n \in DOMAIN storages' /\ storages'[n] = storages[n]
          /\ ~IsRegisterStep => DOMAIN storages' = DOMAIN storages
          /\ IsRegisterStep =>
                LET a == arguments'[1][1]
                IN  IF a.name \in DOMAIN storages
                    THEN ret'[1].err = "LOGICAL_ERROR" /\ DOMAIN storages' = DOMAIN storages
                    ELSE /\ ret'[1].err = NoErr
                         /\ DOMAIN storages' = DOMAIN storages \cup {a.name}
                         /\ storages'[a.name] = Creator(a.creator_fn, a.features)]_vars

\* a second registration of a name with another creator and other features has failed
C28_Witness ==
    /\ StorageCallDone("registerStorage")
    /\ ret[1].err = "LOGICAL_ERROR"
    /\ storages[arguments[1][1].name].creator_fn # arguments[1][1].creator_fn
    /\ storages[arguments[1][1].name].features # arguments[1][1].features
    /\ Cardinality(DOMAIN storages) = MaxEngines

(* ------------------------------------------------------------------ *)
(* C29                                                                  *)
(* ------------------------------------------------------------------ *)
\* the query of the call of get
GetQuery == arguments[1][1].query

\* the ENGINE clause of the query, when the query is a plain table definition
IsTableQuery(q) ==
    ~q.is_ordinary_view /\ ~q.is_live_view /\ ~q.is_dictionary /\ ~q.is_materialized_view

\* the name get resolves: fixed by the kind of query, and the ENGINE name otherwise
ResolvedName(q) ==
    IF q.is_ordinary_view THEN "View"
    ELSE IF q.is_live_view THEN "LiveView"
    ELSE IF q.is_dictionary THEN "Dictionary"
    ELSE IF q.is_materialized_view THEN "MaterializedView"
    ELSE q.storage[1].engine.name

ValidationErrors ==
    {"INCORRECT_QUERY", "ENGINE_REQUIRED", "FUNCTION_CANNOT_HAVE_PARAMETERS", "UNKNOWN_STORAGE",
     "BAD_ARGUMENTS", "DATA_TYPE_CANNOT_BE_USED_IN_TABLES", "std::out_of_range"}

\* a clause of the query asks for a feature the engine does not have
AsksUnsupported(q, f) ==
    \/ q.storage[1].settings /\ ~f.supports_settings
    \/ q.storage[1].sort_order /\ ~f.supports_sort_order
    \/ (q.storage[1].ttl_table \/ q.column_ttls) /\ ~f.supports_ttl
    \/ q.indices /\ ~f.supports_skipping_indices
    \/ q.projections /\ ~f.supports_projections

\* C29: get calls at most one creator, and none before the validation has passed; a
\* creator that is called is the one registered under the resolved name (View, LiveView,
\* Dictionary by the kind of query, MaterializedView for a materialized view, the ENGINE
\* name otherwise) and its result is what get returns. A view, live view or dictionary
\* with an ENGINE clause fails with INCORRECT_QUERY; a table without ENGINE with
\* ENGINE_REQUIRED, with a parametric engine with FUNCTION_CANNOT_HAVE_PARAMETERS, with
\* ENGINE View, MaterializedView or LiveView with INCORRECT_QUERY, with an ENGINE name
\* that is not registered with UNKNOWN_STORAGE, with a clause the engine does not support
\* with BAD_ARGUMENTS; whenever get fails other than by the creator's own exception no
\* creator has been called.
C29_CreatorCalledAfterValidation ==
    /\ Len(creator_calls) <= 1
    /\ (impl = "StorageFactory" /\ pc[1] = "begin") => creator_calls = <<>>
    /\ StorageCallDone("get") =>
          LET q == GetQuery
              table == IsTableQuery(q) /\ ~q.cannot_be_stored
              engine == q.storage[1].engine
          IN  /\ ret[1].err \in ValidationErrors => creator_calls = <<>>
              /\ creator_calls # <<>> =>
                    /\ ResolvedName(q) \in DOMAIN storages
                    /\ creator_calls = <<storages[ResolvedName(q)].creator_fn>>
              /\ ret[1].err = NoErr =>
                    /\ creator_calls # <<>>
                    /\ ret[1].col = <<[engine_name |-> ResolvedName(q), creator_fn |-> creator_calls[1]]>>
              /\ ((q.is_ordinary_view \/ q.is_live_view \/ q.is_dictionary) /\ q.storage # <<>>)
                    => ret[1].err = "INCORRECT_QUERY"
              /\ ((q.is_ordinary_view \/ q.is_live_view \/ q.is_dictionary) /\ q.storage = <<>>)
                    => ret[1].err \in {NoErr, "exception of the creator", "std::out_of_range"}
              /\ (table /\ q.storage = <<>>) => ret[1].err = "ENGINE_REQUIRED"
              /\ (table /\ q.storage # <<>>) =>
                    ret[1].err =
                        (IF engine.parameters THEN "FUNCTION_CANNOT_HAVE_PARAMETERS"
                         ELSE IF engine.name \in {"View", "MaterializedView", "LiveView"} THEN "INCORRECT_QUERY"
                         ELSE IF ~(engine.name \in DOMAIN storages) THEN "UNKNOWN_STORAGE"
                         ELSE IF AsksUnsupported(q, storages[engine.name].features) THEN "BAD_ARGUMENTS"
                         ELSE IF creator_calls = <<>> THEN "no creator called"
                         ELSE ret[1].err)
              /\ (table /\ q.storage # <<>> /\ creator_calls # <<>>)
                    => ret[1].err \in {NoErr, "exception of the creator"}

\* a table with a supported SETTINGS clause was created by the creator first registered
\* for its engine
C29_Witness ==
    /\ StorageCallDone("get")
    /\ ret[1].err = NoErr
    /\ IsTableQuery(GetQuery)
    /\ GetQuery.storage[1].settings
    /\ creator_calls = <<2>>
    /\ ret[1].col = <<[engine_name |-> "MergeTree", creator_fn |-> 2]>>
    /\ "LiveView" \in DOMAIN storages

(* ------------------------------------------------------------------ *)
(* ArrayJoinAction                                                      *)
(* ------------------------------------------------------------------ *)
\* a column of a Block: ColumnVector (data), ColumnArray (offsets, data), ColumnMap and
\* ColumnNullable (the offsets and data of the nested ColumnArray)
BlockColumn(kind, offsets, data) == [kind |-> kind, offsets |-> offsets, data |-> data]

\* a data type: Array(nested), Map (nested type Array(Tuple)), Nullable(Array(nested)), or a plain type
BlockType(tag, nested) == [tag |-> tag, nested |-> nested]

ColumnWithTypeAndName(column, type, name) == [name |-> name, type |-> type, column |-> column]

NullColumn == BlockColumn("nullptr", <<>>, <<>>)
NullType == BlockType("nullptr", "")

\* IColumn::size
ColumnSize(column) == IF column.kind = "Vector" THEN Len(column.data) ELSE Len(column.offsets)

\* Block::rows
BlockRows(blk) == IF blk = <<>> THEN 0 ELSE ColumnSize(blk[1].column)

\* the rows of a column, each the sequence of its values
ColumnRows(column) ==
    IF column.kind = "Vector" THEN [i \in 1..Len(column.data) |-> <<column.data[i]>>]
    ELSE [i \in 1..Len(column.offsets) |->
            SubSeq(column.data, StartOf(column.offsets, i) + 1, column.offsets[i])]

\* the column of the given kind with the given rows
ColumnOfRows(kind, rows) ==
    IF kind = "Vector" THEN BlockColumn(kind, <<>>, Concat(rows))
    ELSE BlockColumn(kind, EndOffsets([i \in 1..Len(rows) |-> Len(rows[i])], 0), Concat(rows))

\* IColumn::replicate(offsets): row i of the column offsets[i] - offsets[i - 1] times
replicate(column, offsets) ==
    LET rows == ColumnRows(column)
    IN  ColumnOfRows(column.kind,
            Concat([i \in 1..Len(rows) |-> [j \in 1..(offsets[i] - StartOf(offsets, i)) |-> rows[i]]]))

\* ColumnArray::hasEqualOffsets
hasEqualOffsets(array, other) == array.offsets = other.offsets

\* ColumnArray::getDataPtr
getDataPtr(array) == BlockColumn("Vector", <<>>, array.data)

\* the function length on an array column
FunctionLength(array) == [i \in 1..Len(array.offsets) |-> array.offsets[i] - StartOf(array.offsets, i)]

\* the function greatest on two UInt64 columns
FunctionGreatest(x, y) == [i \in 1..Len(x) |-> IF y[i] > x[i] THEN y[i] ELSE x[i]]

\* the function arrayResize: every row cut or padded with default values to the given size
FunctionArrayResize(array, sizes) ==
    LET rows == ColumnRows(array)
    IN  ColumnOfRows("Array",
            [i \in 1..Len(rows) |-> [j \in 1..sizes[i] |-> IF j <= Len(rows[i]) THEN rows[i][j] ELSE 0]])

\* the function emptyArrayToSingle: every empty row becomes one default value
FunctionEmptyArrayToSingle(array) ==
    LET rows == ColumnRows(array)
    IN  ColumnOfRows("Array", [i \in 1..Len(rows) |-> IF rows[i] = <<>> THEN <<0>> ELSE rows[i]])

\* getArrayJoinDataType
getArrayJoinDataType(type) ==
    CASE type.tag = "Array" -> type
      [] type.tag = "Map" -> BlockType("Array", "Tuple")
      [] type.tag = "Nullable" -> BlockType("Array", type.nested)
      [] OTHER -> NullType

\* getArrayJoinColumn
getArrayJoinColumn(column) ==
    CASE column.kind = "Array" -> column
      [] column.kind \in {"Map", "Nullable"} -> BlockColumn("Array", column.offsets, column.data)
      [] OTHER -> NullColumn

\* getArrayJoinColumnRawPtr
getArrayJoinColumnRawPtr(column) == getArrayJoinColumn(column)

\* convertArrayJoinColumn
convertArrayJoinColumn(src_col) ==
    ColumnWithTypeAndName(getArrayJoinColumn(src_col.column), getArrayJoinDataType(src_col.type), src_col.name)

\* Block::getByName
getByName(blk, name) == blk[CHOOSE i \in 1..Len(blk) : blk[i].name = name]

\* the order of the names in std::map<String, ColumnPtr>
NameOrder == <<"a", "b", "k">>

\* non_empty_array_columns.begin()->first
FirstName(names) == NameOrder[CHOOSE i \in 1..Len(NameOrder) :
                                /\ NameOrder[i] \in names
                                /\ \A j \in 1..(i - 1) : ~(NameOrder[j] \in names)]

\* column_of_max_length after the loop over the joined columns
RECURSIVE MaxLength(_, _, _)
MaxLength(blk, names, column_of_max_length) ==
    IF names = {} THEN column_of_max_length
    ELSE LET name == FirstName(names)
         IN  MaxLength(blk, names \ {name},
                 FunctionGreatest(column_of_max_length,
                                  FunctionLength(convertArrayJoinColumn(getByName(blk, name)).column)))

\* the array of a joined column as the block holds it, also for a LEFT join
ArrayPtr_Current(action, non_empty_array_columns, current) ==
    IF current.type.tag = "Array" THEN current.column
    ELSE BlockColumn("Array", current.column.offsets, current.column.data)

\* array_ptr of a joined column of Array or Map type
ArrayPtr(action, non_empty_array_columns, current) ==
    IF action.is_left /\ ~action.is_unaligned THEN non_empty_array_columns[current.name]
    ELSE IF current.type.tag = "Array" THEN current.column
    ELSE BlockColumn("Array", current.column.offsets, current.column.data)

\* the loop of execute over the columns of the block from position i: the error thrown, or
\* NoErr, and the block as the loop leaves it
RECURSIVE ArrayJoinLoop(_, _, _, _, _)
ArrayJoinLoop(action, non_empty_array_columns, any_array, blk, i) ==
    IF i > Len(blk) THEN [err |-> NoErr, block |-> blk]
    ELSE LET current == blk[i]
             type == getArrayJoinDataType(current.type)
             array == ArrayPtr(action, non_empty_array_columns, current)
         IN  IF current.name \in action.columns
             THEN IF type = NullType THEN [err |-> "TYPE_MISMATCH", block |-> blk]
                  ELSE IF current.type.tag # "Array" /\ current.column.kind # "Map"
                  THEN [err |-> "bad typeid_cast", block |-> blk]
                  ELSE IF ~action.is_unaligned /\ ~hasEqualOffsets(array, any_array)
                  THEN [err |-> "SIZES_OF_ARRAYS_DOESNT_MATCH", block |-> blk]
                  ELSE ArrayJoinLoop(action, non_empty_array_columns, any_array,
                           [blk EXCEPT ![i] = ColumnWithTypeAndName(getDataPtr(array),
                                                  BlockType(type.nested, ""), current.name)],
                           i + 1)
             ELSE ArrayJoinLoop(action, non_empty_array_columns, any_array,
                      [blk EXCEPT ![i].column = replicate(current.column, any_array.offsets)], i + 1)

\* ArrayJoinAction::ArrayJoinAction: the error thrown, or NoErr
ArrayJoinAction_construct(columns) == IF columns = {} THEN "LOGICAL_ERROR" ELSE NoErr

\* ArrayJoinAction::execute, first being *columns.begin(): the error thrown, or NoErr, and
\* the block afterwards. A joined column that is no array leaves convertArrayJoinColumn
\* with a null type and a null column, which the functions built on it dereference.
ArrayJoinAction_execute(action, blk, first) ==
    LET joined_are_arrays == \A name \in action.columns :
                                 convertArrayJoinColumn(getByName(blk, name)).column # NullColumn
        rows == BlockRows(blk)
        column_of_max_length ==
            MaxLength(blk, action.columns, [i \in 1..rows |-> IF action.is_left THEN 1 ELSE 0])
        resized == [x \in 1..Len(blk) |->
                      IF blk[x].name \in action.columns
                      THEN ColumnWithTypeAndName(
                               FunctionArrayResize(convertArrayJoinColumn(blk[x]).column, column_of_max_length),
                               convertArrayJoinColumn(blk[x]).type, blk[x].name)
                      ELSE blk[x]]
        non_empty_array_columns ==
            [name \in action.columns |->
                FunctionEmptyArrayToSingle(convertArrayJoinColumn(getByName(blk, name)).column)]
    IN  IF action.columns = {} THEN [err |-> "LOGICAL_ERROR", block |-> blk]
        ELSE IF getArrayJoinColumnRawPtr(getByName(blk, first).column) = NullColumn
        THEN [err |-> "TYPE_MISMATCH", block |-> blk]
        ELSE IF action.is_unaligned
        THEN IF ~joined_are_arrays THEN [err |-> "null pointer dereference", block |-> blk]
             ELSE ArrayJoinLoop(action, <<>>, getByName(resized, first).column, resized, 1)
        ELSE IF action.is_left
        THEN IF ~joined_are_arrays THEN [err |-> "null pointer dereference", block |-> blk]
             ELSE ArrayJoinLoop(action, non_empty_array_columns,
                                non_empty_array_columns[FirstName(action.columns)], blk, 1)
        ELSE ArrayJoinLoop(action, <<>>, getArrayJoinColumnRawPtr(getByName(blk, first).column), blk, 1)

(* ------------------------------------------------------------------ *)
(* Calls of ArrayJoinAction: one caller                                 *)
(* ------------------------------------------------------------------ *)
\* the sets of joined column names
ColumnSets == { {}, {"a"}, {"b"}, {"a", "b"}, {"a", "b", "k"} }

\* the lengths of the rows of an array column
ArrayShapes(r) == [1..r -> 0..2]

\* the array column with rows of the given lengths, its values numbered from base + 1
ShapedColumn(kind, lens, base) ==
    BlockColumn(kind, EndOffsets(lens, 0), [i \in 1..LastOr0(EndOffsets(lens, 0)) |-> base + i])

\* blocks of r rows with the columns a, b and k in two orders
BlocksOf(r) ==
    LET A == { ColumnWithTypeAndName(ShapedColumn("Array", s, 10), BlockType("Array", "UInt8"), "a") :
                 s \in ArrayShapes(r) }
        K == ColumnWithTypeAndName(BlockColumn("Vector", <<>>, [i \in 1..r |-> 30 + i]), BlockType("UInt8", ""), "k")
        B(a) == { ColumnWithTypeAndName(ShapedColumn("Array", s, 20), BlockType("Array", "UInt8"), "b") :
                    s \in ArrayShapes(r) }
                \cup { ColumnWithTypeAndName(BlockColumn("Map", a.column.offsets, a.column.data),
                                             BlockType("Map", "Tuple"), "b"),
                       ColumnWithTypeAndName(BlockColumn("Nullable", a.column.offsets, a.column.data),
                                             BlockType("Nullable", "UInt8"), "b"),
                       ColumnWithTypeAndName(BlockColumn("Vector", <<>>, [i \in 1..r |-> 20 + i]),
                                             BlockType("UInt8", ""), "b") }
    IN  UNION { UNION { { <<a, b, K>>, <<K, b, a>> } : b \in B(a) } : a \in A }

Blocks == UNION { BlocksOf(r) : r \in 0..MaxRows }

InitJoin ==
    /\ impl = "ArrayJoinAction"
    /\ seed = 0
    /\ pc = [t \in Threads |-> "idle"]
    /\ arguments = [t \in Threads |-> <<>>]
    /\ input_rows_count = [t \in Threads |-> 0]
    /\ junk = [t \in Threads |-> 0]
    /\ vec_to = [t \in Threads |-> <<>>]
    /\ is_first_argument = [t \in Threads |-> TRUE]
    /\ idx = [t \in Threads |-> 0]
    /\ ret = [t \in Threads |-> NoRet]
    /\ storages = <<>>
    /\ creator_calls = <<>>
    /\ array_join = NoAction
    /\ block = <<>>

\* ArrayJoinAction(array_joined_columns_, array_join_is_left, context)
JoinConstruct ==
    /\ pc[1] = "idle"
    /\ \E columns \in ColumnSets, array_join_is_left \in BOOLEAN, enable_unaligned_array_join \in BOOLEAN :
        /\ arguments' = [arguments EXCEPT ![1] =
               <<[call |-> "ArrayJoinAction", columns |-> columns, is_left |-> array_join_is_left,
                  is_unaligned |-> enable_unaligned_array_join]>>]
        /\ ret' = [ret EXCEPT ![1] = [err |-> ArrayJoinAction_construct(columns), col |-> <<>>]]
        /\ array_join' = IF ArrayJoinAction_construct(columns) # NoErr THEN array_join
                         ELSE [columns |-> columns, is_left |-> array_join_is_left,
                               is_unaligned |-> enable_unaligned_array_join]
    /\ pc' = [pc EXCEPT ![1] = "done"]
    /\ UNCHANGED <<impl, seed, input_rows_count, junk, vec_to, is_first_argument, idx, factory_vars, block>>

\* the caller hands a block to execute
JoinBlock ==
    /\ pc[1] = "idle"
    /\ array_join # NoAction
    /\ \E blk \in Blocks :
        /\ block' = blk
        /\ arguments' = [arguments EXCEPT ![1] = <<[call |-> "execute", block |-> blk]>>]
    /\ pc' = [pc EXCEPT ![1] = "begin"]
    /\ UNCHANGED <<impl, seed, input_rows_count, junk, vec_to, is_first_argument, idx, ret, factory_vars, array_join>>

\* execute(block); *columns.begin() is any name of the unordered set
JoinExecute ==
    /\ pc[1] = "begin"
    /\ impl = "ArrayJoinAction"
    /\ \E first \in array_join.columns :
        LET r == ArrayJoinAction_execute(array_join, block, first)
        IN  /\ block' = r.block
            /\ ret' = [ret EXCEPT ![1] = [err |-> r.err, col |-> <<>>]]
    /\ pc' = [pc EXCEPT ![1] = "done"]
    /\ UNCHANGED <<impl, seed, arguments, input_rows_count, junk, vec_to, is_first_argument, idx, factory_vars, array_join>>

\* the call returns; the caller's block ends with it
JoinFinish ==
    /\ pc[1] = "done"
    /\ impl = "ArrayJoinAction"
    /\ pc' = [pc EXCEPT ![1] = "idle"]
    /\ arguments' = [arguments EXCEPT ![1] = <<>>]
    /\ ret' = [ret EXCEPT ![1] = NoRet]
    /\ block' = <<>>
    /\ UNCHANGED <<impl, seed, input_rows_count, junk, vec_to, is_first_argument, idx, factory_vars, array_join>>

NextJoin == JoinConstruct \/ JoinBlock \/ JoinExecute \/ JoinFinish

SpecJoin == InitJoin /\ [][NextJoin]_vars

(* ------------------------------------------------------------------ *)
(* C30                                                                  *)
(* ------------------------------------------------------------------ *)
JoinDone ==
    /\ impl = "ArrayJoinAction" /\ pc[1] = "done"
    /\ arguments[1][1].call = "execute"

\* the block as it was given to execute
InBlock == arguments[1][1].block

\* the column of that block with the given name
InColumn(name) == InBlock[CHOOSE x \in 1..Len(InBlock) : InBlock[x].name = name].column

\* row i of the array column with the given name, as given
InRow(name, i) ==
    LET c == InColumn(name)
    IN  SubSeq(c.data, (IF i = 1 THEN 0 ELSE c.offsets[i - 1]) + 1, c.offsets[i])

\* the longest of row i among the joined columns, at least least
LongestRow(i, least) ==
    LET lens == { Len(InRow(n, i)) : n \in array_join.columns } \cup {least}
    IN  CHOOSE m \in lens : \A l \in lens : l <= m

\* the length of row i of a joined column as prepared for the join: in unaligned mode the
\* longest row i of the joined columns (at least 1 in a LEFT join), in a LEFT join 1 for an
\* empty row, and the length of the row otherwise
PreparedLen(name, i) ==
    IF array_join.is_unaligned THEN LongestRow(i, IF array_join.is_left THEN 1 ELSE 0)
    ELSE IF array_join.is_left /\ InRow(name, i) = <<>> THEN 1
    ELSE Len(InRow(name, i))

\* element j of the prepared row i: the element given, or the default value
PreparedElement(name, i, j) == IF j <= Len(InRow(name, i)) THEN InRow(name, i)[j] ELSE 0

\* the number of elements of the prepared rows before row i
RECURSIVE PreparedBefore(_, _)
PreparedBefore(name, i) ==
    IF i <= 1 THEN 0 ELSE PreparedBefore(name, i - 1) + PreparedLen(name, i - 1)

PreparedTotal(name) == PreparedBefore(name, BlockRows(InBlock) + 1)

\* the row whose prepared elements include position p of the result
RowOfPosition(name, p) ==
    CHOOSE i \in 1..BlockRows(InBlock) :
        PreparedBefore(name, i) < p /\ p <= PreparedBefore(name, i) + PreparedLen(name, i)

\* the element type of an Array, Map or Nullable(Array) type
NestedTypeOf(type) == IF type.tag = "Map" THEN "Tuple" ELSE type.nested

JoinedAreArrays == \A n \in array_join.columns : InColumn(n).kind \in {"Array", "Map"}

====
